---- MODULE Spec2Model ----
(***************************************************************************)
(* News + Market Daily Signal: the AI analysis adapter (src/ai_analyze.py) *)
(* and the signal combiner (src/main.py).                                  *)
(*                                                                         *)
(* Texts are sequences of tokens.  Punctuation, whitespace and the letters *)
(* of a fence's language tag are one-character tokens; a JSON member       *)
(* ("key": value) and a JSON scalar are atomic tokens carrying the decoded *)
(* value.  Python values are tagged records.                               *)
(***************************************************************************)
EXTENDS Integers, Sequences, FiniteSets, TLC

VARIABLES
    pc,            \* position of the process under study
    wrapping,      \* how the reply text was wrapped around json_text
    json_text,     \* the JSON text J of a reply, unwrapped
    raw,           \* the text handed to _parse_analysis
    parsed,        \* outcome of _parse_analysis(raw)
    parsed_plain,  \* outcome of _parse_analysis(json_text)
    cfg,           \* Config
    has_pkg,       \* _HAS_ANTHROPIC, _HAS_GOOGLE
    articles,      \* the articles of the run
    market,        \* MarketData
    attempt,       \* loop variable of the provider's retry loop
    calls,         \* the backend calls made so far, oldest first
    outcome,       \* what analyze gave its caller
    origin,        \* "ai" or "fallback": where the returned result came from
    final_signal,  \* result of combine_signals
    result_in,     \* the argument passed to the function under study
    result_out,    \* what it returned
    log,           \* the file data/signal_history.jsonl
    log0,          \* that file when the run started
    appends,       \* the append_signal_record calls made so far, oldest first
    hist_out,      \* what the last load_history or run_backtest call gave
    run_env,       \* what the collaborators of a run do: news, prices, notification
    trace,         \* the calls the entry point has made so far, oldest first
    loop           \* the Streamlit run loop: tickers selected, position, results

parseVars == <<wrapping, json_text, raw, parsed, parsed_plain>>
runVars == <<cfg, has_pkg, articles, market>>
analyzeVars == <<attempt, calls, outcome, origin>>
unitVars == <<result_in, result_out>>
histVars == <<log, log0, appends, hist_out>>
mainVars == <<run_env, trace, loop>>
vars == <<pc, parseVars, runVars, analyzeVars, final_signal, unitVars, histVars, mainVars>>

(***************************************************************************)
(* Bounds                                                                  *)
(***************************************************************************)
MaxListLen == 6        \* longest key_drivers list a reply carries

MaxArticles == 1       \* most articles of a run

MaxReturn == 1         \* largest |return_7d_pct|, in hundredths of a percent

(***************************************************************************)
(* Python values                                                           *)
(***************************************************************************)
None == [t |-> "NoneType"]

StrV(s) == [t |-> "str", sv |-> s]

IntV(i) == [t |-> "int", iv |-> i]

\* a finite float, held in tenths (999 is 99.9)
FloatV(n) == [t |-> "float", tenths |-> n]

InfV == [t |-> "float", special |-> "inf"]

NanV == [t |-> "float", special |-> "nan"]

BoolV(b) == [t |-> "bool", bv |-> b]

ListV(s) == [t |-> "list", lv |-> s]

DictV(m) == [t |-> "dict", members |-> m]

\* str(v)
PyStr(v) ==
    CASE v.t = "str" -> v.sv
      [] v.t = "int" -> ToString(v.iv)
      [] v.t = "float" ->
            IF "special" \in DOMAIN v THEN v.special
            ELSE IF v.tenths >= 0
                 THEN ToString(v.tenths \div 10) \o "." \o ToString(v.tenths % 10)
                 ELSE "-" \o ToString((-v.tenths) \div 10) \o "." \o ToString((-v.tenths) % 10)
      [] v.t = "bool" -> IF v.bv THEN "True" ELSE "False"
      [] v.t = "NoneType" -> "None"
      [] v.t = "list" -> IF v.lv = <<>> THEN "[]" ELSE "[...]"
      [] v.t = "dict" -> IF v.members = <<>> THEN "{}" ELSE "{...}"

\* hash(v) raises TypeError for a list and for a dict
Hashable(v) == v.t \notin {"list", "dict"}

(***************************************************************************)
(* Texts                                                                   *)
(***************************************************************************)
Ch(c) == [c |-> c]

Member(k, v) == [c |-> "member", k |-> k, v |-> v]

Lit(v) == [c |-> "lit", v |-> v]

\* one backtick character
Backtick == Ch("backtick")

NL == Ch("\n")

SP == Ch(" ")

Fence == <<Backtick, Backtick, Backtick>>

IsSpace(tok) == tok.c \in {" ", "\n"}

\* text[lo:] of Python, lo a 0-based index
SliceFrom(text, lo) ==
    IF lo >= Len(text) THEN <<>> ELSE SubSeq(text, lo + 1, Len(text))

\* text[:-n] of Python
DropLast(text, n) ==
    IF n >= Len(text) THEN <<>> ELSE SubSeq(text, 1, Len(text) - n)

RECURSIVE LStrip(_)
LStrip(text) ==
    IF text # <<>> /\ IsSpace(Head(text)) THEN LStrip(Tail(text)) ELSE text

RECURSIVE RStrip(_)
RStrip(text) ==
    IF text # <<>> /\ IsSpace(text[Len(text)]) THEN RStrip(DropLast(text, 1)) ELSE text

\* str.strip()
Strip(text) == RStrip(LStrip(text))

\* str.startswith(fence), the fence being three backticks
StartsWithFence(text) == Len(text) >= 3 /\ SubSeq(text, 1, 3) = Fence

\* str.endswith(fence)
EndsWithFence(text) == Len(text) >= 3 /\ SubSeq(text, Len(text) - 2, Len(text)) = Fence

HasNewline(text) == \E i \in 1..Len(text) : text[i] = NL

\* str.index("\n"): 0-based index of the first newline
IndexOfNewline(text) ==
    (CHOOSE i \in 1..Len(text) :
        text[i] = NL /\ \A j \in 1..(i - 1) : text[j] # NL) - 1

(***************************************************************************)
(* json.loads on token texts.  Whitespace between tokens is insignificant; *)
(* a text is a JSON value when it is an object of members separated by     *)
(* commas, an array of scalars separated by commas, or one scalar.         *)
(***************************************************************************)
NoSpace(text) == SelectSeq(text, LAMBDA tok : ~IsSpace(tok))

\* item ("," item)* with every item of token class cls
Separated(inner, cls) ==
    /\ Len(inner) % 2 = 1
    /\ \A i \in 1..Len(inner) :
          IF i % 2 = 1 THEN inner[i].c = cls ELSE inner[i] = Ch(",")

Items(inner, cls) == SelectSeq(inner, LAMBDA tok : tok.c = cls)

Bracketed(toks, open, close, cls) ==
    /\ Len(toks) >= 2
    /\ toks[1] = Ch(open)
    /\ toks[Len(toks)] = Ch(close)
    /\ (Len(toks) = 2 \/ Separated(SubSeq(toks, 2, Len(toks) - 1), cls))

JsonLoads(text) ==
    LET toks == NoSpace(text)
        inner == SubSeq(toks, 2, Len(toks) - 1)
    IN  IF Bracketed(toks, "{", "}", "member")
        THEN LET ms == Items(inner, "member")
             IN  [ok |-> TRUE,
                  value |-> DictV([i \in 1..Len(ms) |-> [k |-> ms[i].k, v |-> ms[i].v]])]
        ELSE IF Bracketed(toks, "[", "]", "lit")
        THEN LET ls == Items(inner, "lit")
             IN  [ok |-> TRUE, value |-> ListV([i \in 1..Len(ls) |-> ls[i].v])]
        ELSE IF Len(toks) = 1 /\ toks[1].c = "lit"
        THEN [ok |-> TRUE, value |-> toks[1].v]
        ELSE [ok |-> FALSE, value |-> None]

\* dict.get(key, default): the last member of that key wins
DictGet(data, key, default) ==
    LET hits == {i \in 1..Len(data.members) : data.members[i].k = key}
    IN  IF hits = {} THEN default
        ELSE data.members[CHOOSE i \in hits : \A j \in hits : j <= i].v

(***************************************************************************)
(* _parse_analysis                                                         *)
(***************************************************************************)
VALID_SENTIMENTS == {"positive", "negative", "mixed", "neutral"}

VALID_BIASES == {"likely_up", "likely_down", "uncertain"}

AnalysisResult(sentiment, drivers, risks, bias, confidence, rationale) ==
    [news_sentiment |-> sentiment,
     key_drivers |-> drivers,
     risk_factors |-> risks,
     directional_bias |-> bias,
     confidence_0_100 |-> confidence,
     one_paragraph_rationale |-> rationale]

Returned(result) == [exc |-> "none", result |-> result]

Raised(exc) == [exc |-> exc, result |-> None]

\* lines 128-134: strip, drop the opening fence line and a closing fence
StripFences(raw_text) ==
    LET text == Strip(raw_text)
    IN  IF StartsWithFence(text)
        THEN LET first_newline == IF HasNewline(text) THEN IndexOfNewline(text) ELSE 3
                 rest == SliceFrom(text, first_newline + 1)
             IN  Strip(IF EndsWithFence(rest) THEN DropLast(rest, 3) ELSE rest)
        ELSE text

\* value if it is one of the valid strings, else the default
CoerceEnum(value, valid, default) ==
    IF value.t = "str" /\ value.sv \in valid THEN value.sv ELSE default

\* not a list: [str(v)]; then the first five entries, each through str()
CoerceList(value) ==
    LET items == IF value.t = "list" THEN value.lv ELSE <<StrV(PyStr(value))>>
        n == IF Len(items) < 5 THEN Len(items) ELSE 5
    IN  [i \in 1..n |-> PyStr(items[i])]

\* isinstance(v, (int, float)); bool is a subclass of int
IsIntOrFloat(value) == value.t \in {"int", "float", "bool"}

\* int(v) for a value that passed the isinstance test (truncates toward zero)
PyInt(value) ==
    CASE value.t = "int" -> value.iv
      [] value.t = "bool" -> IF value.bv THEN 1 ELSE 0
      [] value.t = "float" ->
            IF value.tenths >= 0 THEN value.tenths \div 10
            ELSE -((-value.tenths) \div 10)

\* the exception int(v) raises, "none" when it returns
PyIntRaises(value) ==
    IF value.t = "float" /\ "special" \in DOMAIN value
    THEN (IF value.special = "inf" THEN "OverflowError" ELSE "ValueError")
    ELSE "none"

Clamp(i) == IF i > 100 THEN 100 ELSE IF i < 0 THEN 0 ELSE i

\* lines 138-170, data being what json.loads returned
ValidateAnalysis(data) ==
    IF data.t # "dict" THEN Raised("AttributeError")
    ELSE
    LET sentiment == DictGet(data, "news_sentiment", StrV("neutral"))
        bias == DictGet(data, "directional_bias", StrV("uncertain"))
        drivers == DictGet(data, "key_drivers", ListV(<<>>))
        risks == DictGet(data, "risk_factors", ListV(<<>>))
        got == DictGet(data, "confidence_0_100", IntV(50))
        confidence == IF IsIntOrFloat(got) THEN got ELSE IntV(50)
        rationale == DictGet(data, "one_paragraph_rationale", StrV("No rationale provided."))
    IN  IF ~Hashable(sentiment) \/ ~Hashable(bias) THEN Raised("TypeError")
        ELSE IF PyIntRaises(confidence) # "none" THEN Raised(PyIntRaises(confidence))
        ELSE Returned(AnalysisResult(
                CoerceEnum(sentiment, VALID_SENTIMENTS, "neutral"),
                CoerceList(drivers),
                CoerceList(risks),
                CoerceEnum(bias, VALID_BIASES, "uncertain"),
                Clamp(PyInt(confidence)),
                PyStr(rationale)))

_parse_analysis(raw_text) ==
    LET loaded == JsonLoads(StripFences(raw_text))
    IN  IF loaded.ok THEN ValidateAnalysis(loaded.value) ELSE Raised("JSONDecodeError")

(***************************************************************************)
(* Reply texts: what a backend may answer                                  *)
(***************************************************************************)
Missing == [t |-> "missing"]

Keys == <<"news_sentiment", "key_drivers", "risk_factors",
          "directional_bias", "confidence_0_100", "one_paragraph_rationale">>

\* the members of an object, in schema order, the missing keys left out
MembersOf(choice) ==
    SelectSeq([i \in 1..Len(Keys) |-> Member(Keys[i], choice[Keys[i]])],
              LAMBDA m : m.v # Missing)

RECURSIVE Join(_, _)
Join(ms, pretty) ==
    IF ms = <<>> THEN <<>>
    ELSE (IF pretty THEN <<NL>> ELSE <<>>)
         \o <<Head(ms)>>
         \o (IF Len(ms) > 1 THEN <<Ch(",")>> ELSE <<>>)
         \o Join(Tail(ms), pretty)

\* the text of a JSON object, on one line or one member per line
ObjectText(choice, pretty) ==
    <<Ch("{")>> \o Join(MembersOf(choice), pretty)
                \o (IF pretty THEN <<NL>> ELSE <<>>) \o <<Ch("}")>>

IntList(n) == ListV([i \in 1..n |-> IntV(i)])

SentimentValues ==
    {Missing, StrV("positive"), StrV("INVALID"), ListV(<<StrV("positive")>>)}

BiasValues ==
    {Missing, StrV("likely_up"), StrV("sideways"), DictV(<<>>)}

ConfidenceValues ==
    {Missing, IntV(150), IntV(-5), IntV(70), FloatV(999), FloatV(-5),
     BoolV(TRUE), StrV("80"), None, InfV, NanV}

DriverValues ==
    {Missing, StrV("abc"), None} \cup {IntList(n) : n \in {0, MaxListLen - 1, MaxListLen}}

RiskValues == {Missing, ListV(<<StrV("macro"), None>>)}

RationaleValues == {Missing, None}

Choices ==
    [news_sentiment : SentimentValues,
     key_drivers : DriverValues,
     risk_factors : RiskValues,
     directional_bias : BiasValues,
     confidence_0_100 : ConfidenceValues,
     one_paragraph_rationale : RationaleValues]

\* a well-formed reply in the schema of the prompt
GoodChoice(bias, confidence) ==
    [news_sentiment |-> StrV("positive"),
     key_drivers |-> ListV(<<StrV("earnings")>>),
     risk_factors |-> ListV(<<>>),
     directional_bias |-> StrV(bias),
     confidence_0_100 |-> IntV(confidence),
     one_paragraph_rationale |-> StrV("Things look good.")]

ObjectTexts == {ObjectText(c, FALSE) : c \in Choices}

FencedObjectTexts ==
    {ObjectText(c, p) :
        c \in {GoodChoice("likely_up", 80),
               [GoodChoice("likely_down", 30) EXCEPT !.key_drivers = Missing],
               [k \in DOMAIN GoodChoice("x", 0) |-> Missing]},
        p \in BOOLEAN}

\* JSON values that are not objects
NonObjectTexts ==
    {<<Ch("["), Ch("]")>>, <<Ch("["), Lit(IntV(1)), Ch(","), Lit(IntV(2)), Ch("]")>>,
     <<Lit(IntV(3))>>, <<Lit(StrV("likely_up"))>>, <<Lit(None)>>, <<Lit(BoolV(TRUE))>>}

\* texts json.loads rejects
MalformedTexts ==
    {<<>>,
     <<Ch("n"), Ch("o")>>,
     <<Ch("{"), Member("confidence_0_100", IntV(80))>>,
     <<Member("confidence_0_100", IntV(80)), Ch("}")>>,
     <<Ch("{"), Member("confidence_0_100", IntV(80)), Ch(","), Ch("}")>>,
     <<Ch("{"), Ch("}"), Ch("n")>>,
     <<Ch("{"), Ch("}"), Ch("{"), Ch("}")>>}

Plain == [lead |-> FALSE, fence |-> "none", sep |-> "none", close |-> "none", trail |-> FALSE]

Padded == [Plain EXCEPT !.lead = TRUE, !.trail = TRUE]

\* the fence of the smoke test: tagged, a newline on each side of the JSON
Standard == [Plain EXCEPT !.fence = "tagged", !.sep = "nl", !.close = "nl_fence"]

FencedWrappings ==
    [lead : BOOLEAN, fence : {"bare", "tagged"}, sep : {"none", "nl", "sp"},
     close : {"none", "fence", "nl_fence"}, trail : BOOLEAN]

Wrap(text, w) ==
    (IF w.lead THEN <<SP>> ELSE <<>>)
    \o (CASE w.fence = "none" -> <<>>
          [] w.fence = "bare" -> Fence
          [] w.fence = "tagged" -> Fence \o <<Ch("j"), Ch("s"), Ch("o"), Ch("n")>>)
    \o (CASE w.sep = "none" -> <<>> [] w.sep = "nl" -> <<NL>> [] w.sep = "sp" -> <<SP>>)
    \o text
    \o (CASE w.close = "none" -> <<>>
          [] w.close = "fence" -> Fence
          [] w.close = "nl_fence" -> <<NL>> \o Fence)
    \o (IF w.trail THEN <<NL>> ELSE <<>>)

ParseInputs ==
    {[j |-> j, w |-> w] : j \in ObjectTexts, w \in {Plain, Standard}}
    \cup {[j |-> j, w |-> w] :
            j \in FencedObjectTexts \cup NonObjectTexts \cup MalformedTexts,
            w \in FencedWrappings \cup {Plain, Padded}}

(***************************************************************************)
(* The variables a specification does not use keep their idle values       *)
(***************************************************************************)
ParseIdle ==
    /\ wrapping = None /\ json_text = <<>> /\ raw = <<>>
    /\ parsed = None /\ parsed_plain = None

RunIdle == cfg = None /\ has_pkg = None /\ articles = <<>> /\ market = None

AnalyzeIdle ==
    /\ attempt = 0 /\ calls = <<>> /\ outcome = None /\ origin = "none"
    /\ final_signal = "none"

UnitIdle == result_in = None /\ result_out = None

HistIdle ==
    /\ log = None /\ log0 = None /\ appends = <<>> /\ hist_out = None

MainIdle == run_env = None /\ trace = <<>> /\ loop = None

(***************************************************************************)
(* _parse_analysis applied to a reply text and to the JSON text inside it  *)
(***************************************************************************)
InitParse ==
    /\ pc = "input"
    /\ \E inp \in ParseInputs :
          /\ wrapping = inp.w
          /\ json_text = inp.j
          /\ raw = Wrap(inp.j, inp.w)
    /\ parsed = None
    /\ parsed_plain = None
    /\ RunIdle /\ AnalyzeIdle /\ UnitIdle /\ HistIdle /\ MainIdle

ParseAnalysis ==
    /\ pc = "input"
    /\ parsed' = _parse_analysis(raw)
    /\ parsed_plain' = _parse_analysis(json_text)
    /\ pc' = "parsed"
    /\ UNCHANGED <<wrapping, json_text, raw, runVars, analyzeVars, final_signal, unitVars, histVars, mainVars>>

NextParse == ParseAnalysis

SpecParse == InitParse /\ [][NextParse]_vars

(***************************************************************************)
(* Config and MarketData                                                   *)
(***************************************************************************)
\* "mistral" stands for a provider name analyze does not know.  Config
\* lower-cases AI_PROVIDER (utils.py:44), so lower() in analyze changes nothing.
Providers == {"openai", "claude", "google", "perplexity", "mistral"}

KeyNames == {"openai_api_key", "claude_api_key", "google_api_key", "perplexity_api_key"}

\* every key set, no key set, exactly one key set
KeyConfigs ==
    {[k \in KeyNames |-> "sk-test"], [k \in KeyNames |-> ""]}
    \cup {[k \in KeyNames |-> IF k = one THEN "sk-test" ELSE ""] : one \in KeyNames}

\* CONFIDENCE_THRESHOLD: below, at (utils.py:82) and above the default
Thresholds == {25, 40, 80}

Config(provider, keys, threshold) ==
    [ai_provider |-> provider,
     openai_api_key |-> keys["openai_api_key"],
     claude_api_key |-> keys["claude_api_key"],
     google_api_key |-> keys["google_api_key"],
     perplexity_api_key |-> keys["perplexity_api_key"],
     confidence_threshold |-> threshold]

Configs == {Config(p, k, t) : p \in Providers, k \in KeyConfigs, t \in Thresholds}

\* return_7d_pct is held in hundredths of a percent (the code rounds it to 2 decimals)
Markets == [close_vs_sma7 : {"above", "below"}, return_7d_pct : (-MaxReturn)..MaxReturn]

ArticleLists == {[i \in 1..n |-> "article"] : n \in 0..MaxArticles}

\* str() of a float given in hundredths: 150 is "1.5", -100 is "-1.0", 1 is "0.01"
PctStr(h) ==
    LET a == IF h < 0 THEN -h ELSE h
        frac == a % 100
    IN  (IF h < 0 THEN "-" ELSE "") \o ToString(a \div 100) \o "."
        \o (IF frac % 10 = 0 THEN ToString(frac \div 10)
            ELSE IF frac < 10 THEN "0" \o ToString(frac)
            ELSE ToString(frac))

(***************************************************************************)
(* _rule_based_fallback                                                    *)
(***************************************************************************)
\* the heuristic with the zero return counted as a rise
_rule_based_fallback_zero_up(arts, mkt) ==
    LET up == mkt.close_vs_sma7 = "above" /\ mkt.return_7d_pct >= 0
        down == ~up /\ mkt.close_vs_sma7 = "below" /\ mkt.return_7d_pct < 0
    IN  AnalysisResult(
            IF up THEN "positive" ELSE IF down THEN "negative" ELSE "mixed",
            <<"7-day return: " \o PctStr(mkt.return_7d_pct) \o "%",
              "Price vs 7d SMA: " \o mkt.close_vs_sma7>>,
            <<"AI analysis unavailable - using basic trend only">>,
            IF up THEN "likely_up" ELSE IF down THEN "likely_down" ELSE "uncertain",
            25,
            "Rule-based fallback: The stock is trading " \o mkt.close_vs_sma7
                \o " its 7-day SMA with a " \o PctStr(mkt.return_7d_pct)
                \o "% weekly return. Without AI sentiment analysis of "
                \o ToString(Len(arts)) \o " news articles, confidence is low.")

_rule_based_fallback(arts, mkt) ==
    LET up == mkt.close_vs_sma7 = "above" /\ mkt.return_7d_pct > 0
        down == ~up /\ mkt.close_vs_sma7 = "below" /\ mkt.return_7d_pct < 0
    IN  AnalysisResult(
            IF up THEN "positive" ELSE IF down THEN "negative" ELSE "mixed",
            <<"7-day return: " \o PctStr(mkt.return_7d_pct) \o "%",
              "Price vs 7d SMA: " \o mkt.close_vs_sma7>>,
            <<"AI analysis unavailable - using basic trend only">>,
            IF up THEN "likely_up" ELSE IF down THEN "likely_down" ELSE "uncertain",
            25,
            "Rule-based fallback: The stock is trading " \o mkt.close_vs_sma7
                \o " its 7-day SMA with a " \o PctStr(mkt.return_7d_pct)
                \o "% weekly return. Without AI sentiment analysis of "
                \o ToString(Len(arts)) \o " news articles, confidence is low.")

(***************************************************************************)
(* _apply_confidence_threshold.  arg is the caller's object after the      *)
(* call, ret the object returned (dataclasses.replace builds a new one).   *)
(***************************************************************************)
\* the override with <= in place of <
_apply_confidence_threshold_le(result, threshold) ==
    [arg |-> result,
     ret |-> IF result.confidence_0_100 <= threshold
             THEN [result EXCEPT !.directional_bias = "uncertain"]
             ELSE result]

\* the override assigning to the caller's object instead of replacing it
_apply_confidence_threshold_inplace(result, threshold) ==
    LET new == IF result.confidence_0_100 < threshold
               THEN [result EXCEPT !.directional_bias = "uncertain"]
               ELSE result
    IN  [arg |-> new, ret |-> new]

\* no override at all
_apply_confidence_threshold_off(result, threshold) == [arg |-> result, ret |-> result]

_apply_confidence_threshold(result, threshold) ==
    [arg |-> result,
     ret |-> IF result.confidence_0_100 < threshold
             THEN [result EXCEPT !.directional_bias = "uncertain"]
             ELSE result]

(***************************************************************************)
(* combine_signals                                                         *)
(***************************************************************************)
\* high conviction from a confidence of 40 on
HighConvictionFrom40 == 70 - 30

\* high conviction from the confidence of the fallback on
HighConvictionFrom25 == 70 - 45

_HIGH_CONVICTION_THRESHOLD == 70

\* the table with > in place of >= for high conviction
combine_signals_gt(ai, mkt) ==
    LET bullish == /\ ai.directional_bias = "likely_up"
                   /\ mkt.close_vs_sma7 = "above"
                   /\ mkt.return_7d_pct > 0
        bearish == /\ ai.directional_bias = "likely_down"
                   /\ mkt.close_vs_sma7 = "below"
                   /\ mkt.return_7d_pct < 0
        high_conviction == ai.confidence_0_100 > _HIGH_CONVICTION_THRESHOLD
    IN  IF bullish THEN (IF high_conviction THEN "high_conviction_up" ELSE "likely_up")
        ELSE IF bearish THEN (IF high_conviction THEN "high_conviction_down" ELSE "likely_down")
        ELSE "uncertain"

combine_signals(ai, mkt) ==
    LET bullish == /\ ai.directional_bias = "likely_up"
                   /\ mkt.close_vs_sma7 = "above"
                   /\ mkt.return_7d_pct > 0
        bearish == /\ ai.directional_bias = "likely_down"
                   /\ mkt.close_vs_sma7 = "below"
                   /\ mkt.return_7d_pct < 0
        high_conviction == ai.confidence_0_100 >= _HIGH_CONVICTION_THRESHOLD
    IN  IF bullish THEN (IF high_conviction THEN "high_conviction_up" ELSE "likely_up")
        ELSE IF bearish THEN (IF high_conviction THEN "high_conviction_down" ELSE "likely_down")
        ELSE "uncertain"

(***************************************************************************)
(* The three pure functions, each applied to drawn inputs                  *)
(***************************************************************************)
ConfidenceSamples == {0, 24, 25, 26, 39, 40, 41, 69, 70, 71, 79, 80, 81, 100}

SampleResults ==
    {AnalysisResult(s, d, <<>>, b, c, "test") :
        s \in {"positive", "neutral"}, d \in {<<>>, <<"test">>},
        b \in VALID_BIASES, c \in ConfidenceSamples}

InitUnits ==
    /\ pc = "unit_input"
    /\ cfg \in {Config("openai", [k \in KeyNames |-> "sk-test"], t) : t \in Thresholds}
    /\ has_pkg = None
    /\ articles \in ArticleLists
    /\ market \in Markets
    /\ result_in \in SampleResults
    /\ result_out = None
    /\ ParseIdle /\ AnalyzeIdle /\ HistIdle /\ MainIdle

RuleBasedFallback ==
    /\ pc = "unit_input"
    /\ result_out' = _rule_based_fallback(articles, market)
    /\ pc' = "fallback_returned"
    /\ UNCHANGED <<parseVars, runVars, analyzeVars, final_signal, result_in, histVars, mainVars>>

ApplyConfidenceThreshold ==
    /\ pc = "unit_input"
    /\ LET r == _apply_confidence_threshold(result_in, cfg.confidence_threshold)
       IN  result_in' = r.arg /\ result_out' = r.ret
    /\ pc' = "threshold_returned"
    /\ UNCHANGED <<parseVars, runVars, analyzeVars, final_signal, histVars, mainVars>>

CombineSignals ==
    /\ pc = "unit_input"
    /\ final_signal' = combine_signals(result_in, market)
    /\ pc' = "combine_returned"
    /\ UNCHANGED <<parseVars, runVars, analyzeVars, unitVars, histVars, mainVars>>

NextUnits == RuleBasedFallback \/ ApplyConfidenceThreshold \/ CombineSignals

SpecUnits == InitUnits /\ [][NextUnits]_vars

(***************************************************************************)
(* analyze: provider dispatch, the two-attempt loop, the fallback          *)
(***************************************************************************)
\* the sections of the prompt; at most the first 30 articles are listed
_build_prompt(arts, mkt, c) ==
    <<"You are a financial analyst assistant.",
      "NEWS HEADLINES: " \o ToString(IF Len(arts) < 30 THEN Len(arts) ELSE 30),
      "MARKET INDICATORS: " \o mkt.close_vs_sma7 \o " " \o PctStr(mkt.return_7d_pct),
      "schema",
      "Return ONLY the JSON object.">>

_build_strict_retry_prompt(arts, mkt, c) ==
    _build_prompt(arts, mkt, c)
        \o <<"CRITICAL: Your previous response was not valid JSON. Return ONLY a raw JSON object.">>

\* the backend analyze dispatches a provider name to
Backend(provider) ==
    IF provider \in {"claude", "google", "perplexity"} THEN provider ELSE "openai"

\* the guards before the loop: package not installed, or no API key
Unavailable(backend, c, pkgs) ==
    CASE backend = "openai" -> c.openai_api_key = ""
      [] backend = "claude" -> ~pkgs.anthropic \/ c.claude_api_key = ""
      [] backend = "google" -> ~pkgs.google \/ c.google_api_key = ""
      [] backend = "perplexity" -> c.perplexity_api_key = ""

\* range(2)
Attempts == 2

\* one attempt more than the code makes
AttemptsPlusOne == Attempts + 1

\* the number of iterations of the retry loop
LoopBound == Attempts

\* subclasses of Exception that the try block can raise
ExceptionClasses ==
    {"APIError", "JSONDecodeError", "AttributeError", "TypeError",
     "OverflowError", "ValueError"}

\* handlers that name only the JSON and the API failure
HandlerNarrow(exc) ==
    IF exc = "JSONDecodeError" THEN "except json.JSONDecodeError"
    ELSE IF exc = "APIError" THEN "except Exception"
    ELSE "propagates"

\* the except clause that takes an exception raised in the try block
Handler(exc) ==
    IF exc = "JSONDecodeError" THEN "except json.JSONDecodeError"
    ELSE IF exc \in ExceptionClasses THEN "except Exception"
    ELSE "propagates"

\* what the backends answer in the runs of analyze
ReplyTexts ==
    {Wrap(ObjectText(GoodChoice("likely_up", 80), FALSE), Plain),
     Wrap(ObjectText(GoodChoice("likely_up", 30), TRUE), Plain),
     Wrap(ObjectText(GoodChoice("likely_down", 40), FALSE), Standard),
     Wrap(ObjectText(GoodChoice("likely_down", 75), FALSE), Plain),
     <<>>,
     <<Ch("["), Ch("]")>>,
     ObjectText([GoodChoice("likely_up", 80) EXCEPT
                    !.news_sentiment = ListV(<<StrV("positive")>>)], FALSE)}

InitAnalyze ==
    /\ pc = "analyze"
    /\ cfg \in Configs
    /\ has_pkg \in [anthropic : BOOLEAN, google : BOOLEAN]
    /\ articles \in ArticleLists
    /\ market \in Markets
    /\ ParseIdle /\ AnalyzeIdle /\ UnitIdle /\ HistIdle /\ MainIdle

\* analyze and the head of _analyze_<provider>, up to the loop
Analyze ==
    /\ pc = "analyze"
    /\ IF Unavailable(Backend(cfg.ai_provider), cfg, has_pkg)
       THEN /\ outcome' = Returned(_rule_based_fallback(articles, market))
            /\ origin' = "fallback"
            /\ pc' = "returned"
       ELSE /\ pc' = "attempt"
            /\ UNCHANGED <<outcome, origin>>
    /\ attempt' = 0
    /\ UNCHANGED <<parseVars, runVars, calls, final_signal, unitVars, histVars, mainVars>>

\* one iteration of the loop, the backend behaving as b
Iteration(b) ==
    LET prompt == IF attempt = 0
                  THEN _build_prompt(articles, market, cfg)
                  ELSE _build_strict_retry_prompt(articles, market, cfg)
        p == IF b.kind = "raises" THEN Raised("APIError") ELSE _parse_analysis(b.text)
        call == [prompt |-> prompt, kind |-> b.kind, text |-> b.text, exc |-> p.exc]
    IN  /\ calls' = Append(calls, call)
        /\ IF p.exc = "none"
           THEN /\ outcome' = Returned(
                        _apply_confidence_threshold(p.result, cfg.confidence_threshold).ret)
                /\ origin' = "ai"
                /\ pc' = "returned"
                /\ UNCHANGED attempt
           ELSE IF Handler(p.exc) = "propagates"
           THEN /\ outcome' = Raised(p.exc)
                /\ pc' = "raised"
                /\ UNCHANGED <<attempt, origin>>
           ELSE IF attempt + 1 < LoopBound
           THEN /\ attempt' = attempt + 1
                /\ pc' = "attempt"
                /\ UNCHANGED <<outcome, origin>>
           ELSE /\ outcome' = Returned(_rule_based_fallback(articles, market))
                /\ origin' = "fallback"
                /\ pc' = "returned"
                /\ UNCHANGED attempt
        /\ UNCHANGED <<parseVars, runVars, final_signal, unitVars, histVars, mainVars>>

\* the backend call raises: network, auth, rate limit
BackendRaises ==
    /\ pc = "attempt"
    /\ Iteration([kind |-> "raises", text |-> <<>>])

\* the backend call returns a reply text
BackendReplies ==
    /\ pc = "attempt"
    /\ \E t \in ReplyTexts : Iteration([kind |-> "replies", text |-> t])

\* run_pipeline, step 4: the final signal from the result analyze returned
RunPipelineCombine ==
    /\ pc = "returned"
    /\ final_signal' = combine_signals(outcome.result, market)
    /\ pc' = "combined"
    /\ UNCHANGED <<parseVars, runVars, analyzeVars, unitVars, histVars, mainVars>>

Next == Analyze \/ BackendRaises \/ BackendReplies \/ RunPipelineCombine

Spec == InitAnalyze /\ [][Next]_vars

(***************************************************************************)
(* The history store (src/history.py): the log file, append, load          *)
(***************************************************************************)
MaxAppends == 2        \* most append_signal_record calls of a behaviour

\* a float held in hundredths (250 is 2.5)
CentsV(h) == [t |-> "float", hundredths |-> h]

MarketData(ticker, last_close, last_close_date, return_7d_pct, close_vs_sma7, rsi_14) ==
    [ticker |-> ticker,
     last_close |-> last_close,
     last_close_date |-> last_close_date,
     return_7d_pct |-> return_7d_pct,
     close_vs_sma7 |-> close_vs_sma7,
     rsi_14 |-> rsi_14]

\* the dict append_signal_record builds, in the order of its keys
HistoryRecord(c, mkt, ai, signal, now) ==
    DictV(<<[k |-> "run_at", v |-> StrV(now)],
            [k |-> "ticker", v |-> StrV(mkt.ticker)],
            [k |-> "topic", v |-> StrV(c.topic)],
            [k |-> "final_signal", v |-> StrV(signal)],
            [k |-> "confidence_0_100", v |-> IntV(ai.confidence_0_100)],
            [k |-> "news_sentiment", v |-> StrV(ai.news_sentiment)],
            [k |-> "directional_bias", v |-> StrV(ai.directional_bias)],
            [k |-> "last_close", v |-> CentsV(mkt.last_close)],
            [k |-> "last_close_date", v |-> StrV(mkt.last_close_date)],
            [k |-> "return_7d_pct", v |-> CentsV(mkt.return_7d_pct)],
            [k |-> "close_vs_sma7", v |-> StrV(mkt.close_vs_sma7)],
            [k |-> "rsi_14", v |-> CentsV(mkt.rsi_14)]>>)

\* json.dumps of a dict of scalars: members separated by a comma and a space
RECURSIVE DumpMembers(_)
DumpMembers(ms) ==
    IF ms = <<>> THEN <<>>
    ELSE IF Len(ms) = 1 THEN <<Member(ms[1].k, ms[1].v)>>
    ELSE <<Member(ms[1].k, ms[1].v), Ch(","), SP>> \o DumpMembers(Tail(ms))

JsonDumps(value) ==
    IF value.t = "dict"
    THEN <<Ch("{")>> \o DumpMembers(value.members) \o <<Ch("}")>>
    ELSE <<Lit(value)>>

\* the file: whether it exists, and its text
File(exists, text) == [exists |-> exists, text |-> text]

\* the lines a text file yields when iterated, each with its newline
SplitLines(text) ==
    LET ends == {i \in 1..Len(text) : text[i] = NL \/ i = Len(text)}
        EndOf(k) == CHOOSE e \in ends : Cardinality({f \in ends : f < e}) = k - 1
        StartOf(k) == IF k = 1 THEN 1 ELSE EndOf(k - 1) + 1
    IN  [k \in 1..Cardinality(ends) |-> SubSeq(text, StartOf(k), EndOf(k))]

\* the loop with a malformed line ending the load
RECURSIVE ParseLinesUntilMalformed(_)
ParseLinesUntilMalformed(lines) ==
    IF lines = <<>> THEN <<>>
    ELSE LET stripped == Strip(Head(lines))
         IN  IF stripped = <<>> THEN ParseLinesUntilMalformed(Tail(lines))
             ELSE IF JsonLoads(stripped).ok
             THEN <<JsonLoads(stripped).value>> \o ParseLinesUntilMalformed(Tail(lines))
             ELSE <<>>

\* lines 70-77: the records of the lines, blank and malformed lines skipped
RECURSIVE ParseLines(_)
ParseLines(lines) ==
    IF lines = <<>> THEN <<>>
    ELSE LET stripped == Strip(Head(lines))
             rest == ParseLines(Tail(lines))
         IN  IF stripped = <<>> THEN rest
             ELSE IF JsonLoads(stripped).ok THEN <<JsonLoads(stripped).value>> \o rest
             ELSE rest

\* load_history, opening the file for reading going as io says
load_history(file, io) ==
    IF ~file.exists THEN Returned(<<>>)
    ELSE IF io = "OSError" THEN Raised("OSError")
    ELSE Returned(ParseLines(SplitLines(file.text)))

(***************************************************************************)
(* run_backtest and _print_backtest_results                                *)
(***************************************************************************)
_BULLISH_SIGNALS == {"likely_up", "high_conviction_up"}

_BEARISH_SIGNALS == {"likely_down", "high_conviction_down"}

\* bool(v)
Truthy(v) ==
    CASE v.t = "str" -> v.sv # ""
      [] v.t = "int" -> v.iv # 0
      [] v.t = "float" ->
            IF "tenths" \in DOMAIN v THEN v.tenths # 0
            ELSE IF "hundredths" \in DOMAIN v THEN v.hundredths # 0
            ELSE TRUE
      [] v.t = "bool" -> v.bv
      [] v.t = "NoneType" -> FALSE
      [] v.t = "list" -> v.lv # <<>>
      [] v.t = "dict" -> v.members # <<>>

\* the dates strptime accepts for the format %Y-%m-%d, among those of the model
IsoDates == {"2024-01-15", "2024-01-16"}

Abs(i) == IF i < 0 THEN -i ELSE i

\* a / b rounded to the nearest integer, ties to even; b is not 0
RoundDiv(a, b) ==
    LET n == Abs(a)
        d == Abs(b)
        q == n \div d
        r2 == 2 * (n % d)
        m == IF r2 > d \/ (r2 = d /\ q % 2 = 1) THEN q + 1 ELSE q
    IN  IF (a < 0) = (b < 0) THEN m ELSE -m

\* round(x, 2) of a price held in thousandths, in hundredths
Round2(mills) == RoundDiv(mills, 10)

\* (next_close - signal_close) / signal_close * 100, as an exact fraction
ActualReturnPct(signal_close, next_close) ==
    [num |-> (next_close - signal_close) * 100, den |-> signal_close]

IsPositive(q) == (q.num > 0 /\ q.den > 0) \/ (q.num < 0 /\ q.den < 0)

IsNegative(q) == (q.num > 0 /\ q.den < 0) \/ (q.num < 0 /\ q.den > 0)

\* the grading with a flat day counted as a rise
GradeFlatIsUp(signal, ret) ==
    IF signal \in _BULLISH_SIGNALS THEN BoolV(~IsNegative(ret))
    ELSE IF signal \in _BEARISH_SIGNALS THEN BoolV(IsNegative(ret))
    ELSE None

\* lines 123-128: True, False, or None for a signal with no direction
Grade(signal, ret) ==
    IF signal \in _BULLISH_SIGNALS THEN BoolV(IsPositive(ret))
    ELSE IF signal \in _BEARISH_SIGNALS THEN BoolV(IsNegative(ret))
    ELSE None

Skipped(why) == [kind |-> "skipped", why |-> why]

\* lines 96-140 for one record: the entry added to evaluated, or why none was
EvaluateRecord(rec, w) ==
    LET ticker == DictGet(rec, "ticker", StrV(""))
        close_date == DictGet(rec, "last_close_date", StrV(""))
        signal == DictGet(rec, "final_signal", StrV(""))
    IN  IF ~Truthy(ticker) \/ ~Truthy(close_date) \/ ~Truthy(signal)
        THEN Skipped("incomplete")
        ELSE IF close_date.t # "str" THEN Skipped("TypeError")
        ELSE IF close_date.sv \notin IsoDates THEN Skipped("ValueError")
        ELSE IF ticker.t # "str" THEN Skipped("Exception")
        ELSE
        LET hist == IF ticker.sv \in DOMAIN w THEN w[ticker.sv]
                    ELSE [kind |-> "bars", closes |-> <<>>]
        IN  IF hist.kind = "raises" THEN Skipped("Exception")
            ELSE IF Len(hist.closes) < 2 THEN Skipped("too_recent")
            ELSE
            LET signal_close == hist.closes[1]
                next_close == hist.closes[2]
            IN  IF signal_close = 0 THEN Skipped("ZeroDivisionError")
                ELSE IF ~Hashable(signal) THEN Skipped("TypeError")
                ELSE
                LET actual_return_pct == ActualReturnPct(signal_close, next_close)
                IN  [kind |-> "evaluated",
                     rec |-> rec,
                     signal_close |-> Round2(signal_close),
                     next_close |-> Round2(next_close),
                     actual_next_day_pct |->
                         RoundDiv(100 * actual_return_pct.num, actual_return_pct.den),
                     correct |-> Grade(IF signal.t = "str" THEN signal.sv ELSE "",
                                       actual_return_pct)]

\* the loop of run_backtest over records that are all dicts
RECURSIVE EvaluateAll(_, _)
EvaluateAll(records, w) ==
    IF records = <<>> THEN <<>>
    ELSE LET e == EvaluateRecord(Head(records), w)
         IN  (IF e.kind = "evaluated" THEN <<e>> ELSE <<>>)
                 \o EvaluateAll(Tail(records), w)

\* the exception formatting a row of the table raises, "none" when it prints
RowRaises(e) ==
    LET conf == DictGet(e.rec, "confidence_0_100", Missing)
    IN  IF conf = Missing THEN "KeyError"
        ELSE IF conf.t \in {"NoneType", "list", "dict"} THEN "TypeError"
        ELSE "none"

BacktestOutcome(exc, printed, evaluated, directional, correct, accuracy) ==
    [exc |-> exc, printed |-> printed, evaluated |-> evaluated,
     directional |-> directional, correct |-> correct, accuracy |-> accuracy]

\* the directional records with the uncertain ones counted in
DirectionalWithUncertain(evaluated) == evaluated

\* line 151: the evaluated records that were graded
Directional(evaluated) == SelectSeq(evaluated, LAMBDA e : e.correct # None)

\* accuracy is correct / directional * 100, held as a fraction; None when not computed
_print_backtest_results(evaluated) ==
    IF evaluated = <<>>
    THEN BacktestOutcome("none", "none_evaluated", evaluated, <<>>, <<>>, None)
    ELSE
    LET directional == Directional(evaluated)
        correct == SelectSeq(directional, LAMBDA e : e.correct = BoolV(TRUE))
        accuracy == IF directional # <<>>
                    THEN [num |-> Len(correct) * 100, den |-> Len(directional)]
                    ELSE None
        bad == {i \in 1..Len(evaluated) : RowRaises(evaluated[i]) # "none"}
    IN  BacktestOutcome(
            IF bad = {} THEN "none"
            ELSE RowRaises(evaluated[CHOOSE i \in bad : \A j \in bad : i <= j]),
            "results", evaluated, directional, correct, accuracy)

\* run_backtest, the file opening as io says and the price source answering as w
run_backtest(file, io, w) ==
    LET loaded == load_history(file, io)
        records == loaded.result
    IN  IF loaded.exc # "none"
        THEN BacktestOutcome(loaded.exc, "nothing", <<>>, <<>>, <<>>, None)
        ELSE IF records = <<>>
        THEN BacktestOutcome("none", "no_history", <<>>, <<>>, <<>>, None)
        ELSE IF \E i \in 1..Len(records) : records[i].t # "dict"
        THEN BacktestOutcome("AttributeError", "nothing", <<>>, <<>>, <<>>, None)
        ELSE _print_backtest_results(EvaluateAll(records, w))

(***************************************************************************)
(* The history store under sequences of append, load and backtest calls    *)
(***************************************************************************)
\* the line append_signal_record writes, without its newline
RecordLineNoNewline(record) == JsonDumps(record)

\* line 52: json.dumps(record) + "\n"
RecordLine(record) == JsonDumps(record) \o <<NL>>

\* open(path, "w") in place of "a": the text replaces the file's
WriteTruncate(file, text) == File(TRUE, text)

\* line 51-52: open(path, "a") creates the file if absent and writes at its end
WriteAppend(file, text) == File(TRUE, file.text \o text)

\* what opening and writing can do: all written; open fails; the write fails
\* after the first cut tokens of the line reached the file
WriteDone == [exc |-> "none", opened |-> TRUE, cut |-> 0]

OpenFails == [exc |-> "OSError", opened |-> FALSE, cut |-> 0]

WriteFails == [exc |-> "OSError", opened |-> TRUE, cut |-> 2]

WriteOutcomes == {WriteDone, OpenFails, WriteFails}

\* append_signal_record with no except clause
append_signal_record_uncaught(file, c, mkt, ai, signal, now, io) ==
    LET line == RecordLine(HistoryRecord(c, mkt, ai, signal, now))
    IN  [file |-> IF io.exc = "none" THEN WriteAppend(file, line)
                  ELSE IF ~io.opened THEN file
                  ELSE WriteAppend(file, SubSeq(line, 1, io.cut)),
         exc |-> io.exc]

\* append_signal_record: the file afterwards, and the exception it lets out
append_signal_record(file, c, mkt, ai, signal, now, io) ==
    LET line == RecordLine(HistoryRecord(c, mkt, ai, signal, now))
    IN  [file |-> IF io.exc = "none" THEN WriteAppend(file, line)
                  ELSE IF ~io.opened THEN file
                  ELSE WriteAppend(file, SubSeq(line, 1, io.cut)),
         exc |-> IF io.exc = "OSError" THEN "none" ELSE io.exc]

\* datetime.now(timezone.utc).isoformat() at the n-th append
Now(n) == "2024-01-15T00:00:0" \o ToString(n) \o "+00:00"

\* the arguments of TestSignalHistory: _market(), _ai() and a final signal
AppendInput(signal) ==
    [cfg |-> [topic |-> "Test topic"],
     market |-> MarketData("TEST", 10000, "2024-01-15", 250, "above", 5500),
     ai |-> AnalysisResult("positive", <<"strong earnings">>, <<"macro headwinds">>,
                           "likely_up", 75, "Test rationale."),
     final_signal |-> signal]

\* the append calls of a behaviour: what is appended and how the write goes
AppendCases ==
    {[input |-> AppendInput("likely_up"), io |-> WriteDone],
     [input |-> AppendInput("uncertain"), io |-> WriteDone],
     [input |-> AppendInput("likely_up"), io |-> OpenFails],
     [input |-> AppendInput("uncertain"), io |-> WriteFails]}

NotJsonLine == <<Ch("N"), Ch("O"), Ch("T"), NL>>

\* a record as a hand-written line: ticker, date and signal only
ShortLine(ticker, date, signal) ==
    <<Ch("{"), Member("ticker", StrV(ticker)), Ch(","),
      Member("last_close_date", StrV(date)), Ch(","),
      Member("final_signal", StrV(signal)), Ch("}"), NL>>

\* the same with a confidence
ScoredLine(ticker, date, signal, confidence) ==
    <<Ch("{"), Member("ticker", StrV(ticker)), Ch(","),
      Member("last_close_date", StrV(date)), Ch(","),
      Member("final_signal", StrV(signal)), Ch(","), SP,
      Member("confidence_0_100", IntV(confidence)), Ch("}"), NL>>

\* the log files a behaviour starts from: absent, empty, the file of
\* test_load_skips_malformed_lines, and files with blank lines, incomplete
\* records, a bad date and a line that is JSON but no object
InitialLogs ==
    {File(FALSE, <<>>),
     File(TRUE, <<>>),
     File(TRUE, <<Ch("{"), Member("valid", BoolV(TRUE)), Ch("}"), NL>>
                    \o NotJsonLine
                    \o <<Ch("{"), Member("also", StrV("valid")), Ch("}"), NL>>),
     File(TRUE, ShortLine("TEST", "2024-01-15", "high_conviction_up") \o <<NL, SP, NL>>
                    \o ShortLine("", "2024-01-15", "likely_up")
                    \o ShortLine("TEST", "n/a", "likely_up")),
     File(TRUE, ScoredLine("TEST", "2024-01-16", "likely_down", 80)),
     File(TRUE, <<Lit(IntV(3)), NL>>)}

\* closes, in thousandths, of the bars the price source returns from the
\* recorded date on; or the request raises
PriceAnswers ==
    {[kind |-> "raises", closes |-> <<>>]}
    \cup {[kind |-> "bars", closes |-> cs] :
            cs \in {<<100000>>, <<100000, 101000>>, <<100000, 100000>>,
                    <<100000, 99000>>, <<0, 1000>>, <<100001, 100004, 100000>>}}

Worlds == [{"TEST"} -> PriceAnswers]

HistoryPcs == {"history", "appended", "loaded", "backtested"}

InitHistory ==
    /\ pc = "history"
    /\ log \in InitialLogs
    /\ log0 = log
    /\ appends = <<>>
    /\ hist_out = None
    /\ ParseIdle /\ RunIdle /\ AnalyzeIdle /\ UnitIdle /\ MainIdle

AppendSignalRecord ==
    /\ pc \in HistoryPcs
    /\ Len(appends) < MaxAppends
    /\ \E case \in AppendCases :
          LET inp == case.input
              r == append_signal_record(log, inp.cfg, inp.market, inp.ai,
                                        inp.final_signal, Now(Len(appends) + 1), case.io)
          IN  /\ log' = r.file
              /\ appends' = Append(appends, case)
              /\ hist_out' = [op |-> "append_signal_record", exc |-> r.exc]
    /\ pc' = "appended"
    /\ UNCHANGED <<parseVars, runVars, analyzeVars, final_signal, unitVars, log0, mainVars>>

LoadHistory ==
    /\ pc \in HistoryPcs
    /\ \E io \in {"ok", "OSError"} :
          LET r == load_history(log, io)
          IN  hist_out' = [op |-> "load_history", io |-> io, exc |-> r.exc,
                           records |-> r.result]
    /\ pc' = "loaded"
    /\ UNCHANGED <<parseVars, runVars, analyzeVars, final_signal, unitVars,
                   log, log0, appends, mainVars>>

RunBacktest ==
    /\ pc \in HistoryPcs
    /\ \E io \in {"ok", "OSError"}, w \in Worlds :
          LET r == run_backtest(log, io, w)
          IN  hist_out' = [op |-> "run_backtest", io |-> io, w |-> w, exc |-> r.exc,
                           out |-> r]
    /\ pc' = "backtested"
    /\ UNCHANGED <<parseVars, runVars, analyzeVars, final_signal, unitVars,
                   log, log0, appends, mainVars>>

NextHistory == AppendSignalRecord \/ LoadHistory \/ RunBacktest

SpecHistory == InitHistory /\ [][NextHistory]_vars

(***************************************************************************)
(* Claims                                                                  *)
(***************************************************************************)
ResultFields ==
    {"news_sentiment", "key_drivers", "risk_factors", "directional_bias",
     "confidence_0_100", "one_paragraph_rationale"}

\* C1: combine_signals returns high_conviction_up for bullish and confidence
\* >= 70, likely_up for bullish below 70, high_conviction_down for bearish and
\* confidence >= 70, likely_down for bearish below 70, and uncertain whenever
\* the AI bias and both indicators do not agree on a direction.
C1_DecisionTable ==
    pc = "combine_returned" =>
        LET bullish == /\ result_in.directional_bias = "likely_up"
                       /\ market.close_vs_sma7 = "above"
                       /\ market.return_7d_pct > 0
            bearish == /\ result_in.directional_bias = "likely_down"
                       /\ market.close_vs_sma7 = "below"
                       /\ market.return_7d_pct < 0
            high == result_in.confidence_0_100 >= 70
        IN  /\ (bullish /\ high) => final_signal = "high_conviction_up"
            /\ (bullish /\ ~high) => final_signal = "likely_up"
            /\ (bearish /\ high) => final_signal = "high_conviction_down"
            /\ (bearish /\ ~high) => final_signal = "likely_down"
            /\ (~bullish /\ ~bearish) => final_signal = "uncertain"
            /\ (result_in.directional_bias = "uncertain" \/ market.return_7d_pct = 0)
                  => final_signal = "uncertain"

\* a bearish run at exactly the high-conviction threshold
C1_Witness ==
    /\ pc = "combine_returned"
    /\ result_in.directional_bias = "likely_down"
    /\ result_in.confidence_0_100 = 70
    /\ final_signal = "high_conviction_down"

C3_AnalyzeNeverRaises ==
    /\ pc # "raised"
    /\ pc \in {"returned", "combined"} =>
          /\ outcome.exc = "none"
          /\ DOMAIN outcome.result = ResultFields

\* a run whose first call raised and whose second reply failed validation
C3_Witness ==
    /\ pc = "returned"
    /\ Len(calls) = 2
    /\ calls[1].exc = "APIError"
    /\ calls[2].exc \in {"AttributeError", "TypeError"}
    /\ outcome.exc = "none"

\* C4: after a JSON-parse failure of the first reply exactly one further call
\* is made, with the strict-retry prompt; a reply that parses as JSON ends the
\* run's backend calls; no run makes more than two calls; the fallback is
\* returned when both replies fail to parse.
C4_RetryProtocol ==
    LET done == pc \in {"returned", "combined"}
        jsonFailed(i) == calls[i].kind = "replies" /\ calls[i].exc = "JSONDecodeError"
        jsonParsed(i) == /\ calls[i].kind = "replies"
                         /\ JsonLoads(StripFences(calls[i].text)).ok
    IN  /\ Len(calls) <= 2
        /\ (done /\ Len(calls) >= 1 /\ jsonFailed(1)) =>
              /\ Len(calls) = 2
              /\ calls[2].prompt = _build_strict_retry_prompt(articles, market, cfg)
        /\ \A i \in 1..Len(calls) : jsonParsed(i) => (i = Len(calls) /\ done)
        /\ (done /\ Len(calls) = 2 /\ jsonFailed(1) /\ jsonFailed(2)) =>
              origin = "fallback"

\* C5 (as claimed): when a backend call of the run errors, analyze returns the
\* rule-based fallback result.
C5_ErrorGivesFallback ==
    (pc = "returned" /\ \E i \in 1..Len(calls) : calls[i].kind = "raises")
        => /\ origin = "fallback"
           /\ outcome.result = _rule_based_fallback(articles, market)

\* C5 (amended): when the backend call errors on both attempts of a run,
\* analyze returns the rule-based fallback result; an error on the first
\* attempt alone is followed by the second call.
C5_ErrorsOnBothAttempts ==
    pc = "returned" =>
        /\ (Len(calls) >= 2 /\ calls[1].kind = "raises" /\ calls[2].kind = "raises")
              => /\ origin = "fallback"
                 /\ outcome.result = _rule_based_fallback(articles, market)
        /\ (Len(calls) >= 1 /\ calls[1].kind = "raises") => Len(calls) >= 2

\* both calls of the run raised and the fallback came back
C5_Witness ==
    /\ pc = "returned"
    /\ Len(calls) = 2
    /\ calls[1].kind = "raises"
    /\ calls[2].kind = "raises"
    /\ origin = "fallback"

\* C6: _apply_confidence_threshold gives bias uncertain when the confidence
\* is below the threshold and the input's bias otherwise (equality keeps it);
\* the five other fields are the input's, and the input object is unchanged.
C6_ThresholdFrame ==
    [][(pc = "unit_input" /\ pc' = "threshold_returned") =>
        /\ result_out'.directional_bias =
              IF result_in.confidence_0_100 < cfg.confidence_threshold
              THEN "uncertain" ELSE result_in.directional_bias
        /\ \A f \in ResultFields \ {"directional_bias"} : result_out'[f] = result_in[f]
        /\ result_in' = result_in]_vars

\* a likely_up input one point below the threshold came back uncertain
C6_Witness ==
    /\ pc = "threshold_returned"
    /\ result_in.directional_bias = "likely_up"
    /\ result_in.confidence_0_100 = cfg.confidence_threshold - 1
    /\ result_out.directional_bias = "uncertain"
    /\ result_out.confidence_0_100 = result_in.confidence_0_100

\* C7: _parse_analysis raises only when the fence-stripped text is not JSON;
\* for every text that parses as JSON it returns an AnalysisResult with every
\* field set.
C7_ValidationNeverFails ==
    pc = "parsed" =>
        IF JsonLoads(StripFences(raw)).ok
        THEN parsed.exc = "none" /\ DOMAIN parsed.result = ResultFields
        ELSE parsed.exc = "JSONDecodeError"

\* the value a reply gave for a key, Missing when it gave none
Given(text, key) == DictGet(JsonLoads(StripFences(text)).value, key, Missing)

\* a JSON number: booleans, strings and null are not numbers
IsJsonNumber(v) == v.t \in {"int", "float"} /\ "special" \notin DOMAIN v

\* the number in tenths
Tenths(v) == IF v.t = "int" THEN 10 * v.iv ELSE v.tenths

\* C8: every AnalysisResult _parse_analysis returns is in domain: sentiment
\* and bias are valid values (anything else or missing becomes neutral,
\* uncertain), confidence is an integer in [0,100] (above 100 becomes 100,
\* below 0 becomes 0, missing or non-numeric becomes 50), and key_drivers and
\* risk_factors hold at most 5 strings (a non-list value becomes the
\* one-element list of its string form).
C8_ResultInDomain ==
    (pc = "parsed" /\ parsed.exc = "none") =>
        LET r == parsed.result
            s == Given(raw, "news_sentiment")
            b == Given(raw, "directional_bias")
            c == Given(raw, "confidence_0_100")
            d == Given(raw, "key_drivers")
        IN  /\ r.news_sentiment \in VALID_SENTIMENTS
            /\ ~(s.t = "str" /\ s.sv \in VALID_SENTIMENTS) => r.news_sentiment = "neutral"
            /\ r.directional_bias \in VALID_BIASES
            /\ ~(b.t = "str" /\ b.sv \in VALID_BIASES) => r.directional_bias = "uncertain"
            /\ r.confidence_0_100 \in 0..100
            /\ (IsJsonNumber(c) /\ Tenths(c) > 1000) => r.confidence_0_100 = 100
            /\ (IsJsonNumber(c) /\ Tenths(c) < 0) => r.confidence_0_100 = 0
            /\ ~IsJsonNumber(c) => r.confidence_0_100 = 50
            /\ Len(r.key_drivers) <= 5 /\ Len(r.risk_factors) <= 5
            /\ (d # Missing /\ d.t # "list") => r.key_drivers = <<PyStr(d)>>

\* C9: for every JSON object text J, J wrapped in a fenced code block (tagged
\* or not, a newline after the opening fence or not, a closing fence or not)
\* parses to the same AnalysisResult as J unwrapped.
C9_FenceTransparent ==
    (/\ pc = "parsed"
     /\ wrapping.fence # "none"
     /\ wrapping.sep \in {"none", "nl"}
     /\ JsonLoads(json_text).ok
     /\ JsonLoads(json_text).value.t = "dict")
        => parsed = parsed_plain

\* C10: _rule_based_fallback gives likely_up and positive for above with a
\* positive return, likely_down and negative for below with a negative return,
\* uncertain and mixed otherwise (a zero return included), and confidence 25
\* whatever the articles.
C10_FallbackTable ==
    pc = "fallback_returned" =>
        LET up == market.close_vs_sma7 = "above" /\ market.return_7d_pct > 0
            down == market.close_vs_sma7 = "below" /\ market.return_7d_pct < 0
        IN  /\ up => /\ result_out.directional_bias = "likely_up"
                     /\ result_out.news_sentiment = "positive"
            /\ down => /\ result_out.directional_bias = "likely_down"
                       /\ result_out.news_sentiment = "negative"
            /\ (~up /\ ~down) => /\ result_out.directional_bias = "uncertain"
                                 /\ result_out.news_sentiment = "mixed"
            /\ result_out.confidence_0_100 = 25

\* above the SMA with a zero return, and articles at hand: uncertain at 25
C10_Witness ==
    /\ pc = "fallback_returned"
    /\ market.close_vs_sma7 = "above"
    /\ market.return_7d_pct = 0
    /\ Len(articles) > 0
    /\ result_out.directional_bias = "uncertain"
    /\ result_out.confidence_0_100 = 25

(***************************************************************************)
(* fetch_market_data (src/market.py)                                       *)
(***************************************************************************)
\* one close fewer than the code asks for
MinClosesLess == 7 - 1

\* line 122: the fewest closes the indicators are computed from
MinCloses == 7

RECURSIVE SumSeq(_)
SumSeq(s) == IF s = <<>> THEN 0 ELSE Head(s) + SumSeq(Tail(s))

\* close.tail(n)
TailOf(close, n) ==
    IF Len(close) <= n THEN close ELSE SubSeq(close, Len(close) - n + 1, Len(close))

\* the numerators of avg_gain and avg_loss over the common denominator den,
\* after the changes from position i on went through Wilder's smoothing
RECURSIVE Smooth(_, _, _, _, _, _)
Smooth(gains, losses, i, g, l, den) ==
    IF i > Len(gains) THEN [gain |-> g, loss |-> l]
    ELSE Smooth(gains, losses, i + 1,
                g * 13 + gains[i] * den, l * 13 + losses[i] * den, den * 14)

\* _compute_rsi asking for more than period + 1 points
_compute_rsi_more_points(close) ==
    IF Len(close) <= 14 + 1 THEN 5000
    ELSE
    LET delta == [i \in 1..(Len(close) - 1) |-> close[i + 1] - close[i]]
        gains == [i \in DOMAIN delta |-> IF delta[i] > 0 THEN delta[i] ELSE 0]
        losses == [i \in DOMAIN delta |-> IF delta[i] < 0 THEN -delta[i] ELSE 0]
        avg == Smooth(gains, losses, 15,
                      SumSeq(SubSeq(gains, 1, 14)), SumSeq(SubSeq(losses, 1, 14)), 14)
    IN  IF avg.loss = 0 THEN 10000
        ELSE RoundDiv(10000 * avg.gain, avg.gain + avg.loss)

\* _compute_rsi with period 14, in hundredths
_compute_rsi(close) ==
    IF Len(close) < 14 + 1 THEN 5000
    ELSE
    LET delta == [i \in 1..(Len(close) - 1) |-> close[i + 1] - close[i]]
        gains == [i \in DOMAIN delta |-> IF delta[i] > 0 THEN delta[i] ELSE 0]
        losses == [i \in DOMAIN delta |-> IF delta[i] < 0 THEN -delta[i] ELSE 0]
        avg == Smooth(gains, losses, 15,
                      SumSeq(SubSeq(gains, 1, 14)), SumSeq(SubSeq(losses, 1, 14)), 14)
    IN  IF avg.loss = 0 THEN 10000
        ELSE RoundDiv(10000 * avg.gain, avg.gain + avg.loss)

\* what tk.history(period="3mo") does: it raises, or it returns the bars,
\* their closes in hundredths and the date of the last one
NoBars == [kind |-> "bars", closes |-> <<>>, last_date |-> ""]

Bars(closes, last_date) == [kind |-> "bars", closes |-> closes, last_date |-> last_date]

PriceSourceRaises == [kind |-> "raises", closes |-> <<>>, last_date |-> ""]

\* lines 104-172; prices are in hundredths
fetch_market_data(c, answer) ==
    LET close == answer.closes
        n == Len(close)
    IN  IF answer.kind = "raises" THEN Raised("ConnectionError")
        ELSE IF n = 0 THEN Raised("ValueError")
        ELSE IF n < MinCloses THEN Raised("ValueError")
        ELSE
        LET last_close == close[n]
            last7 == TailOf(close, 7)
            price_7_ago == IF n >= 8 THEN close[n - 7] ELSE close[1]
        IN  IF price_7_ago = 0 THEN Raised("ZeroDivisionError")
            ELSE Returned(MarketData(
                    c.ticker,
                    last_close,
                    answer.last_date,
                    RoundDiv((last_close - price_7_ago) * 10000, price_7_ago),
                    IF last_close * Len(last7) > SumSeq(last7) THEN "above" ELSE "below",
                    _compute_rsi(close)))

(***************************************************************************)
(* Config.validate (src/utils.py), the report, the notification            *)
(***************************************************************************)
\* a record with the fields of r and, over them, those of extra
WithFields(r, extra) ==
    [f \in DOMAIN r \cup DOMAIN extra |-> IF f \in DOMAIN extra THEN extra[f] ELSE r[f]]

\* validate without its last branch: an unknown provider is not checked
validate_known_only(c) ==
    LET provider == c.ai_provider
        key == IF provider = "openai" /\ c.openai_api_key = ""
               THEN <<"OPENAI_API_KEY is not set.">>
               ELSE IF provider = "claude" /\ c.claude_api_key = ""
               THEN <<"CLAUDE_API_KEY is not set.">>
               ELSE IF provider = "google" /\ c.google_api_key = ""
               THEN <<"GOOGLE_API_KEY is not set.">>
               ELSE IF provider = "perplexity" /\ c.perplexity_api_key = ""
               THEN <<"PERPLEXITY_API_KEY is not set.">>
               ELSE <<>>
    IN  key \o (IF c.ticker = "" THEN <<"TICKER is not set.">> ELSE <<>>)
            \o (IF c.topic = "" THEN <<"TOPIC is not set.">> ELSE <<>>)

\* lines 104-123: the problems, in the order they are appended
validate(c) ==
    LET provider == c.ai_provider
        key == IF provider = "openai" /\ c.openai_api_key = ""
               THEN <<"OPENAI_API_KEY is not set.">>
               ELSE IF provider = "claude" /\ c.claude_api_key = ""
               THEN <<"CLAUDE_API_KEY is not set.">>
               ELSE IF provider = "google" /\ c.google_api_key = ""
               THEN <<"GOOGLE_API_KEY is not set.">>
               ELSE IF provider = "perplexity" /\ c.perplexity_api_key = ""
               THEN <<"PERPLEXITY_API_KEY is not set.">>
               ELSE IF provider \notin {"openai", "claude", "google", "perplexity"}
                       /\ c.openai_api_key = ""
               THEN <<"OPENAI_API_KEY is not set.">>
               ELSE <<>>
    IN  key \o (IF c.ticker = "" THEN <<"TICKER is not set.">> ELSE <<>>)
            \o (IF c.topic = "" THEN <<"TOPIC is not set.">> ELSE <<>>)

\* app.py, _build_cfg: the session's settings with ticker and topic set
_build_cfg(session, ticker) == WithFields(session, [ticker |-> ticker, topic |-> ticker])

format_signal_label(signal) ==
    CASE signal = "likely_up" -> "LIKELY UP"
      [] signal = "likely_down" -> "LIKELY DOWN"
      [] signal = "uncertain" -> "UNCERTAIN"
      [] signal = "high_conviction_up" -> "HIGH CONVICTION UP"
      [] signal = "high_conviction_down" -> "HIGH CONVICTION DOWN"
      [] OTHER -> signal

\* the records of one ticker; a log that cannot be read gives none
query_history_by_ticker(file, ticker) ==
    SelectSeq(load_history(file, "ok").result,
              LAMBDA rec : rec.t = "dict" /\ DictGet(rec, "ticker", Missing) = StrV(ticker))

\* the parts of the report that vary from run to run
build_report(c, arts, mkt, ai, signal, file) ==
    [ticker |-> c.ticker,
     articles_used |-> Len(arts),
     close_vs_sma7 |-> mkt.close_vs_sma7,
     ai_bias |-> ai.directional_bias,
     past_predictions |-> Len(query_history_by_ticker(file, c.ticker)),
     final_signal |-> format_signal_label(signal)]

\* what the POST to the Telegram API does
PostOutcomes == {"ok", "ok_false", "RequestException"}

\* send_telegram: False when not configured, when the API says ok=false and
\* when the request fails; True when the message was sent
send_telegram(message, c, post) ==
    IF c.telegram_bot_token = "" \/ c.telegram_chat_id = "" THEN FALSE
    ELSE post = "ok"

(***************************************************************************)
(* The entry points: main() of src/main.py and the run loop of src/app.py  *)
(***************************************************************************)
AllKeys == [k \in KeyNames |-> "sk-test"]

NoKeys == [k \in KeyNames |-> ""]

\* Config() as the environment of the run sets it
MainConfig(provider, keys, ticker, telegram) ==
    WithFields(Config(provider, keys, 40),
               [ticker |-> ticker, topic |-> "Microsoft",
                telegram_bot_token |-> telegram, telegram_chat_id |-> telegram])

\* a run that talks to OpenAI, one with no key for its provider, and one
\* whose provider package is not installed (has_pkg), Telegram configured
MainConfigs ==
    {MainConfig("openai", AllKeys, "MSFT", ""),
     MainConfig("openai", NoKeys, "MSFT", ""),
     MainConfig("claude", AllKeys, "MSFT", "123")}

\* every key set but one
AllKeysBut(name) == [k \in KeyNames |-> IF k = name THEN "" ELSE "sk-test"]

\* further environments of a command-line run: each provider without its
\* own key, a provider name analyze does not know with and without the
\* OpenAI key, an empty TICKER, an empty TOPIC
CliConfigs ==
    {MainConfig("claude", AllKeysBut("claude_api_key"), "MSFT", ""),
     MainConfig("google", AllKeysBut("google_api_key"), "MSFT", ""),
     MainConfig("perplexity", AllKeysBut("perplexity_api_key"), "MSFT", ""),
     MainConfig("mistral", AllKeysBut("openai_api_key"), "MSFT", ""),
     MainConfig("mistral", AllKeysBut("claude_api_key"), "MSFT", ""),
     MainConfig("openai", AllKeys, "", ""),
     WithFields(MainConfig("openai", AllKeys, "MSFT", ""), [topic |-> ""]),
     WithFields(MainConfig("openai", NoKeys, "", ""), [topic |-> ""])}

\* the tickers checked in the sidebar when Run is clicked
Selections == {<<>>, <<"MSFT">>, <<"MSFT", "AAPL">>}

\* what fetch_news does: it raises, or it returns articles (possibly none)
NewsAnswers ==
    {[kind |-> "raises", articles |-> <<>>]}
    \cup {[kind |-> "returns", articles |-> a] : a \in ArticleLists}

Rising(n) == [i \in 1..n |-> 10000 + 100 * i]

Falling(n) == [i \in 1..n |-> 10000 - 100 * i]

\* what the price source does: it raises; no bars; 6, 7 and 8 bars
MarketAnswers ==
    {PriceSourceRaises, NoBars,
     Bars(Rising(6), "2024-01-15"),
     Bars(Rising(7), "2024-01-15"),
     Bars(Falling(8), "2024-01-16")}

Call(name, c) == [call |-> name, ticker |-> c.ticker]

\* the run as its collaborators made it: --history TICKER of the command
\* line, the answers of the news and price sources, the exception
\* run_pipeline raised, the report, what send_telegram returned
RunEnv(entry, history_arg) ==
    [entry |-> entry, history_arg |-> history_arg, news |-> None, prices |-> None,
     exc |-> "none", report |-> None, sent |-> None]

InitMain ==
    /\ pc \in {"main", "app"}
    /\ run_env \in {RunEnv(pc, h) : h \in IF pc = "main" THEN {"", "MSFT"} ELSE {""}}
    /\ cfg \in MainConfigs \cup (IF pc = "main" THEN CliConfigs ELSE {})
    /\ has_pkg = [anthropic |-> FALSE, google |-> FALSE]
    /\ loop \in IF pc = "app"
                THEN {[selected |-> s, i |-> 0, results |-> <<>>] : s \in Selections}
                ELSE {None}
    /\ log \in {File(FALSE, <<>>), File(TRUE, ScoredLine("MSFT", "2024-01-12", "likely_up", 80))}
    /\ log0 = log
    /\ appends = <<>>
    /\ hist_out = None
    /\ trace = <<>>
    /\ articles = <<>>
    /\ market = None
    /\ ParseIdle /\ AnalyzeIdle /\ UnitIdle

\* main(), lines 179-182: --history TICKER prints the past predictions and returns
MainShowHistory ==
    /\ pc = "main"
    /\ run_env.history_arg # ""
    /\ trace' = Append(trace, [call |-> "print_history", ticker |-> run_env.history_arg])
    /\ pc' = "done"
    /\ UNCHANGED <<parseVars, runVars, analyzeVars, final_signal, unitVars, histVars,
                   run_env, loop>>

\* main(), lines 186-193: the configuration is validated; problems end the run
MainStart ==
    /\ pc = "main"
    /\ run_env.history_arg = ""
    /\ IF validate(cfg) # <<>>
       THEN /\ trace' = trace \o <<Call("Config.validate", cfg), Call("sys.exit", cfg)>>
            /\ pc' = "exited"
       ELSE /\ trace' = Append(trace, Call("Config.validate", cfg))
            /\ pc' = "fetch_news"
    /\ UNCHANGED <<parseVars, runVars, analyzeVars, final_signal, unitVars, histVars,
                   run_env, loop>>

\* app.py, lines 248-267: nothing selected, or problems with the
\* configuration of the first ticker, and no run starts
AppStart ==
    /\ pc = "app"
    /\ IF loop.selected = <<>>
       THEN /\ pc' = "done"
            /\ UNCHANGED <<cfg, trace, loop>>
       ELSE IF validate(_build_cfg(cfg, loop.selected[1])) # <<>>
       THEN /\ trace' = Append(trace, Call("Config.validate", _build_cfg(cfg, loop.selected[1])))
            /\ pc' = "done"
            /\ UNCHANGED <<cfg, loop>>
       ELSE /\ cfg' = _build_cfg(cfg, loop.selected[1])
            /\ trace' = Append(trace, Call("Config.validate", cfg'))
            /\ loop' = [loop EXCEPT !.i = 1]
            /\ pc' = "fetch_news"
    /\ UNCHANGED <<parseVars, has_pkg, articles, market, analyzeVars, final_signal,
                   unitVars, histVars, run_env>>

\* run_pipeline with no try around fetch_news
PipelineNewsUncaught(answer) ==
    IF answer.kind = "raises" THEN [exc |-> "Exception", articles |-> <<>>]
    ELSE [exc |-> "none", articles |-> answer.articles]

\* run_pipeline, lines 140-147: an exception of fetch_news is logged and the
\* run goes on without articles
PipelineNews(answer) ==
    [exc |-> "none",
     articles |-> IF answer.kind = "raises" THEN <<>> ELSE answer.articles]

\* run_pipeline, step 1
FetchNews ==
    /\ pc = "fetch_news"
    /\ \E answer \in NewsAnswers :
          /\ articles' = PipelineNews(answer).articles
          /\ run_env' = [run_env EXCEPT !.news = answer, !.exc = PipelineNews(answer).exc]
          /\ pc' = IF PipelineNews(answer).exc = "none" THEN "fetch_market_data"
                   ELSE "pipeline_raised"
    /\ trace' = Append(trace, Call("fetch_news", cfg))
    /\ UNCHANGED <<parseVars, cfg, has_pkg, market, analyzeVars, final_signal, unitVars,
                   histVars, loop>>

\* the exception run_pipeline raises for one raised by fetch_market_data
PipelineRaisesAsIs(exc) == exc

\* run_pipeline, lines 150-155: a ValueError goes on, any other exception is
\* replaced by a ValueError
PipelineRaises(exc) == IF exc = "ValueError" THEN exc ELSE "ValueError"

\* run_pipeline, step 2
FetchMarketData ==
    /\ pc = "fetch_market_data"
    /\ \E answer \in MarketAnswers :
          LET r == fetch_market_data(cfg, answer)
          IN  IF r.exc = "none"
              THEN /\ market' = r.result
                   /\ run_env' = [run_env EXCEPT !.prices = answer]
                   /\ pc' = "analyze"
              ELSE /\ run_env' = [run_env EXCEPT !.prices = answer,
                                                 !.exc = PipelineRaises(r.exc)]
                   /\ pc' = "pipeline_raised"
                   /\ UNCHANGED market
    /\ trace' = Append(trace, Call("fetch_market_data", cfg))
    /\ UNCHANGED <<parseVars, cfg, has_pkg, articles, analyzeVars, final_signal, unitVars,
                   histVars, loop>>

\* the log as build_report would find it were the run's record appended first
LogAfterOwnAppend ==
    append_signal_record(log, cfg, market, outcome.result, final_signal,
                         Now(Len(appends) + 1), WriteDone).file

\* the log as build_report finds it: run_pipeline builds the report (line
\* 164) and returns before main appends the record (line 206)
LogAtReport == log

\* run_pipeline, step 5, and its return
BuildReport ==
    /\ pc = "combined"
    /\ run_env' = [run_env EXCEPT
                      !.report = build_report(cfg, articles, market, outcome.result,
                                              final_signal, LogAtReport)]
    /\ trace' = Append(trace, Call("build_report", cfg))
    /\ pc' = "pipeline_returned"
    /\ UNCHANGED <<parseVars, runVars, analyzeVars, final_signal, unitVars, histVars, loop>>

\* the append with the AI's bias passed for the final signal
AppendOfRunBias(io) ==
    append_signal_record(log, cfg, market, outcome.result, outcome.result.directional_bias,
                         Now(Len(appends) + 1), io)

\* the append of the run's record: the file afterwards and the exception let out
AppendOfRun(io) ==
    append_signal_record(log, cfg, market, outcome.result, final_signal,
                         Now(Len(appends) + 1), io)

\* the call as the entry point made it
AppendCall(io) ==
    [input |-> [cfg |-> cfg, market |-> market, ai |-> outcome.result,
                final_signal |-> final_signal],
     io |-> io]

\* main(), line 206: an exception append_signal_record let out would end main
MainAppend ==
    /\ pc = "pipeline_returned"
    /\ run_env.entry = "main"
    /\ \E io \in WriteOutcomes :
          /\ log' = AppendOfRun(io).file
          /\ appends' = Append(appends, AppendCall(io))
          /\ IF AppendOfRun(io).exc = "none"
             THEN pc' = "record_appended" /\ UNCHANGED run_env
             ELSE /\ pc' = "crashed"
                  /\ run_env' = [run_env EXCEPT !.exc = AppendOfRun(io).exc]
    /\ trace' = Append(trace, Call("append_signal_record", cfg))
    /\ UNCHANGED <<parseVars, runVars, analyzeVars, final_signal, unitVars, log0, hist_out,
                   loop>>

\* main(), line 209
MainPrint ==
    /\ pc = "record_appended"
    /\ trace' = Append(trace, Call("print", cfg))
    /\ pc' = "printed"
    /\ UNCHANGED <<parseVars, runVars, analyzeVars, final_signal, unitVars, histVars,
                   run_env, loop>>

\* main(), lines 212-214
MainSendTelegram ==
    /\ pc = "printed"
    /\ \E post \in PostOutcomes :
          run_env' = [run_env EXCEPT !.sent = send_telegram(run_env.report, cfg, post)]
    /\ trace' = Append(trace, Call("send_telegram", cfg))
    /\ pc' = "done"
    /\ UNCHANGED <<parseVars, runVars, analyzeVars, final_signal, unitVars, histVars, loop>>

\* main(), lines 198-203: run_pipeline raised
MainCatches ==
    /\ pc = "pipeline_raised"
    /\ run_env.entry = "main"
    /\ trace' = Append(trace, Call("sys.exit", cfg))
    /\ pc' = "exited"
    /\ UNCHANGED <<parseVars, runVars, analyzeVars, final_signal, unitVars, histVars,
                   run_env, loop>>

\* the entry of st.session_state["results"] for the ticker of the run
ResultOk == [ticker |-> cfg.ticker, error |-> "none", articles |-> articles,
             market |-> market, ai |-> outcome.result, final_signal |-> final_signal,
             report |-> run_env.report]

ResultError(exc) == [ticker |-> cfg.ticker, error |-> exc]

\* app.py, lines 262-282: the result is stored and the loop goes to the next
\* ticker, or ends
StoreAndAdvance(result) ==
    IF loop.i < Len(loop.selected)
    THEN /\ loop' = [loop EXCEPT !.i = loop.i + 1, !.results = Append(loop.results, result)]
         /\ cfg' = _build_cfg(cfg, loop.selected[loop.i + 1])
         /\ run_env' = RunEnv("app", "")
         /\ articles' = <<>>
         /\ market' = None
         /\ attempt' = 0 /\ calls' = <<>> /\ outcome' = None /\ origin' = "none"
         /\ final_signal' = "none"
         /\ pc' = "fetch_news"
    ELSE /\ loop' = [loop EXCEPT !.results = Append(loop.results, result)]
         /\ pc' = "done"
         /\ UNCHANGED <<cfg, run_env, articles, market, analyzeVars, final_signal>>

\* app.py, lines 269-278
AppAppend ==
    /\ pc = "pipeline_returned"
    /\ run_env.entry = "app"
    /\ \E io \in WriteOutcomes :
          /\ log' = AppendOfRun(io).file
          /\ appends' = Append(appends, AppendCall(io))
          /\ StoreAndAdvance(IF AppendOfRun(io).exc = "none" THEN ResultOk
                             ELSE ResultError(AppendOfRun(io).exc))
    /\ trace' = Append(trace, Call("append_signal_record", cfg))
    /\ UNCHANGED <<parseVars, has_pkg, unitVars, log0, hist_out>>

\* app.py, lines 279-280: run_pipeline raised
AppCatches ==
    /\ pc = "pipeline_raised"
    /\ run_env.entry = "app"
    /\ StoreAndAdvance(ResultError(run_env.exc))
    /\ UNCHANGED <<parseVars, has_pkg, unitVars, histVars, trace>>

NextMain ==
    \/ MainShowHistory \/ MainStart \/ AppStart
    \/ FetchNews \/ FetchMarketData
    \/ Analyze \/ BackendRaises \/ BackendReplies \/ RunPipelineCombine
    \/ BuildReport
    \/ MainAppend \/ MainPrint \/ MainSendTelegram \/ MainCatches
    \/ AppAppend \/ AppCatches

SpecMain == InitMain /\ [][NextMain]_vars

(***************************************************************************)
(* Claims about the history store                                          *)
(***************************************************************************)
IsPrefix(a, b) == Len(a) <= Len(b) /\ SubSeq(b, 1, Len(a)) = a

\* the value a loaded record holds for a key
Field(rec, key) == IF rec.t = "dict" THEN DictGet(rec, key, Missing) ELSE Missing

\* C11: starting from an absent or empty log, after N appends whose writes
\* all succeeded, load_history returns exactly N records, in the order of the
\* appends, each with the final_signal, ticker, confidence and market fields
\* of its append.
C11_AppendThenLoad ==
    (/\ pc = "loaded"
     /\ hist_out.io = "ok"
     /\ log0.text = <<>>
     /\ \A i \in 1..Len(appends) : appends[i].io.exc = "none")
        => /\ hist_out.exc = "none"
           /\ Len(hist_out.records) = Len(appends)
           /\ \A i \in 1..Len(appends) :
                 LET r == hist_out.records[i]
                     inp == appends[i].input
                 IN  /\ Field(r, "final_signal") = StrV(inp.final_signal)
                     /\ Field(r, "ticker") = StrV(inp.market.ticker)
                     /\ Field(r, "confidence_0_100") = IntV(inp.ai.confidence_0_100)
                     /\ Field(r, "last_close") = CentsV(inp.market.last_close)
                     /\ Field(r, "last_close_date") = StrV(inp.market.last_close_date)
                     /\ Field(r, "return_7d_pct") = CentsV(inp.market.return_7d_pct)
                     /\ Field(r, "close_vs_sma7") = StrV(inp.market.close_vs_sma7)
                     /\ Field(r, "rsi_14") = CentsV(inp.market.rsi_14)

\* the log was absent; two appends, likely_up then uncertain, and a load of both
C11_Witness ==
    /\ pc = "loaded"
    /\ ~log0.exists
    /\ Len(appends) = 2
    /\ \A i \in 1..2 : appends[i].io.exc = "none"
    /\ appends[1].input.final_signal = "likely_up"
    /\ appends[2].input.final_signal = "uncertain"
    /\ hist_out.exc = "none"
    /\ Len(hist_out.records) = 2
    /\ Field(hist_out.records[2], "final_signal") = StrV("uncertain")

\* C12: load_history returns the records of the lines that parse as JSON, in
\* file order, skipping every line that does not parse and every blank line;
\* it returns the empty list when the file does not exist.
C12_LoadSkipsMalformed ==
    (pc = "loaded" /\ (hist_out.io = "ok" \/ ~log.exists)) =>
        LET lines == SplitLines(log.text)
            kept == SelectSeq(lines, LAMBDA l : JsonLoads(l).ok)
        IN  /\ hist_out.exc = "none"
            /\ hist_out.records = [i \in 1..Len(kept) |-> JsonLoads(kept[i]).value]
            /\ ~log.exists => hist_out.records = <<>>

\* the file of the test: three lines, the middle one malformed, two records loaded
C12_Witness ==
    /\ pc = "loaded"
    /\ appends = <<>>
    /\ Len(SplitLines(log.text)) = 3
    /\ ~JsonLoads(SplitLines(log.text)[2]).ok
    /\ hist_out.exc = "none"
    /\ Len(hist_out.records) = 2

\* C13: the log is append-only.  load_history and run_backtest leave the
\* file unchanged.  An append keeps the file in existence, its text as a prefix
\* of the new text and the records it held as a prefix of the records it
\* holds; it adds at most one line, at the end, and a successful one exactly
\* the line of its record.
C13_AppendOnly ==
    [][/\ pc' \in {"loaded", "backtested"} => log' = log
       /\ pc' = "appended" =>
              LET added == SliceFrom(log'.text, Len(log.text))
                  last == appends'[Len(appends')]
              IN  /\ IsPrefix(log.text, log'.text)
                  /\ log.exists => log'.exists
                  /\ IsPrefix(ParseLines(SplitLines(log.text)),
                              ParseLines(SplitLines(log'.text)))
                  /\ \A i \in 1..Len(added) : added[i] = NL => i = Len(added)
                  /\ last.io.exc = "none" =>
                        /\ added # <<>>
                        /\ added[Len(added)] = NL
                        /\ JsonLoads(added).ok
                        /\ Field(JsonLoads(added).value, "final_signal")
                              = StrV(last.input.final_signal)]_vars

\* a log of three lines, two appends and a backtest later: its text still
\* starts the file, and its two records still head the records
C13_Witness ==
    /\ pc = "backtested"
    /\ Len(SplitLines(log0.text)) = 3
    /\ Len(appends) = 2
    /\ \A i \in 1..2 : appends[i].io.exc = "none"
    /\ Len(log.text) > Len(log0.text)
    /\ IsPrefix(log0.text, log.text)
    /\ Len(ParseLines(SplitLines(log.text))) = 4

\* C15: a read failure is never fatal: when opening the existing log fails
\* with an I/O error, load_history gives the empty list and run_backtest
\* completes.
C15_ReadFailureNotFatal ==
    (pc \in {"loaded", "backtested"} /\ hist_out.io = "OSError") =>
        /\ hist_out.exc = "none"
        /\ hist_out.op = "load_history" => hist_out.records = <<>>

\* the closes the price source gave for the record of an evaluated entry
ClosesFor(e, w) == w[Field(e.rec, "ticker").sv].closes

\* C17: an evaluated record with a bullish signal is correct iff the next
\* close is above the signal-day close (actual_return > 0), one with a
\* bearish signal iff it is below (actual_return < 0), so a flat day is
\* incorrect for both; an uncertain record is neither.
C17_Grading ==
    pc = "backtested" =>
        \A i \in 1..Len(hist_out.out.evaluated) :
            LET e == hist_out.out.evaluated[i]
                signal == Field(e.rec, "final_signal").sv
                signal_close == ClosesFor(e, hist_out.w)[1]
                next_close == ClosesFor(e, hist_out.w)[2]
            IN  /\ signal_close > 0
                /\ signal \in {"likely_up", "high_conviction_up"} =>
                      e.correct = BoolV(next_close > signal_close)
                /\ signal \in {"likely_down", "high_conviction_down"} =>
                      e.correct = BoolV(next_close < signal_close)
                /\ signal = "uncertain" => e.correct = None

\* a likely_up record and a flat next day: graded incorrect
C17_Witness ==
    /\ pc = "backtested"
    /\ \E i \in 1..Len(hist_out.out.evaluated) :
          LET e == hist_out.out.evaluated[i]
          IN  /\ Field(e.rec, "final_signal") = StrV("likely_up")
              /\ ClosesFor(e, hist_out.w)[1] = ClosesFor(e, hist_out.w)[2]
              /\ e.actual_next_day_pct = 0
              /\ e.correct = BoolV(FALSE)

\* a record the backtest grades: ticker, date and signal present, a signal
\* with a direction, and two bars or more from the recorded date
Gradable(rec, w) ==
    LET ticker == Field(rec, "ticker")
        close_date == Field(rec, "last_close_date")
        signal == Field(rec, "final_signal")
    IN  /\ ticker # Missing /\ ticker.t = "str" /\ ticker.sv \in DOMAIN w
        /\ close_date # Missing /\ close_date.t = "str" /\ close_date.sv \in IsoDates
        /\ signal # Missing /\ signal.t = "str"
        /\ signal.sv \in {"likely_up", "high_conviction_up",
                          "likely_down", "high_conviction_down"}
        /\ w[ticker.sv].kind = "bars"
        /\ Len(w[ticker.sv].closes) >= 2
        /\ w[ticker.sv].closes[1] > 0

GradedCorrect(rec, w) ==
    LET closes == w[Field(rec, "ticker").sv].closes
    IN  IF Field(rec, "final_signal").sv \in {"likely_up", "high_conviction_up"}
        THEN closes[2] > closes[1]
        ELSE closes[2] < closes[1]

\* C18: accuracy is the number of correct directional records over the
\* number of evaluated directional records; uncertain records, records
\* with a missing ticker, date or signal and records with fewer than two bars
\* are in neither number; no accuracy is computed when there is none to count.
C18_Accuracy ==
    (pc = "backtested" /\ hist_out.exc \notin {"OSError", "AttributeError"}) =>
        LET recs == ParseLines(SplitLines(log.text))
            w == hist_out.w
            D == {i \in 1..Len(recs) : Gradable(recs[i], w)}
            C == {i \in D : GradedCorrect(recs[i], w)}
            out == hist_out.out
        IN  /\ Len(out.directional) = Cardinality(D)
            /\ Len(out.correct) = Cardinality(C)
            /\ out.accuracy =
                  IF D = {} THEN None
                  ELSE [num |-> Cardinality(C) * 100, den |-> Cardinality(D)]
            /\ \A i \in 1..Len(out.directional) :
                  Field(out.directional[i].rec, "final_signal") # StrV("uncertain")

\* a likely_down record, a likely_up record and an uncertain one, the next
\* day down: three evaluated, two directional, one correct
C18_Witness ==
    /\ pc = "backtested"
    /\ hist_out.exc = "none"
    /\ Len(hist_out.out.evaluated) = 3
    /\ \E i \in 1..3 : hist_out.out.evaluated[i].correct = None
    /\ hist_out.out.accuracy = [num |-> 100, den |-> 2]

(***************************************************************************)
(* Claims about the runs of the entry points                               *)
(***************************************************************************)
Signals ==
    {"likely_up", "likely_down", "uncertain", "high_conviction_up", "high_conviction_down"}

\* the calls of the trace made for a ticker, by name
CallsOf(name, ticker) ==
    SelectSeq(trace, LAMBDA c : c.call = name /\ c.ticker = ticker)

LastCalls(n) == [i \in 1..n |-> trace[Len(trace) - n + i].call]

\* C14: a write failure in append_signal_record never aborts the run: the
\* call returns normally; main goes on to print the report and to send the
\* notification; the Streamlit loop stores the run's result.
C14_WriteFailureNotFatal ==
    /\ pc # "crashed"
    /\ (run_env # None /\ run_env.entry = "main" /\ appends # <<>>) =>
          /\ run_env.exc = "none"
          /\ pc \in {"record_appended", "printed", "done"}
          /\ pc = "done" =>
                /\ LastCalls(3) = <<"append_signal_record", "print", "send_telegram">>
                /\ run_env.sent \in BOOLEAN
    /\ (run_env # None /\ run_env.entry = "app") =>
          \A i \in 1..Len(appends) :
              \E j \in 1..Len(loop.results) :
                  /\ loop.results[j].ticker = appends[i].input.cfg.ticker
                  /\ loop.results[j].error = "none"

\* main ran to its end although the write of the record failed half way
C14_Witness ==
    /\ pc = "done"
    /\ run_env.entry = "main"
    /\ Len(appends) = 1
    /\ appends[1].io = WriteFails
    /\ log # log0
    /\ LastCalls(2) = <<"print", "send_telegram">>

\* the number of newlines of a text
Newlines(text) == Cardinality({i \in 1..Len(text) : text[i] = NL})

C20_NewsFailureNotFatal ==
    (/\ run_env # None /\ run_env.news # None
     /\ (run_env.news.kind = "raises" \/ run_env.news.articles = <<>>)) =>
        /\ articles = <<>>
        /\ Len(trace) >= 1
        /\ pc \notin {"fetch_news", "crashed"}
        /\ run_env.exc # "none" =>
              /\ run_env.prices # None
              /\ fetch_market_data(cfg, run_env.prices).exc # "none"
        /\ pc \in {"done", "exited"} => run_env.prices # None
        /\ (run_env.prices # None /\ run_env.exc = "none") =>
              /\ pc \in {"analyze", "attempt", "returned", "combined", "pipeline_returned",
                         "record_appended", "printed", "done"}
              /\ pc \in {"combined", "pipeline_returned", "record_appended", "printed",
                         "done"} =>
                    /\ final_signal \in Signals
                    /\ final_signal = combine_signals(outcome.result, market)
                    /\ Len(calls) >= 1 =>
                          calls[1].prompt = _build_prompt(<<>>, market, cfg)

\* fetch_news raised; the run went on to a report with no articles and a final signal
C20_Witness ==
    /\ pc = "done"
    /\ run_env.entry = "main"
    /\ run_env.news # None
    /\ run_env.news.kind = "raises"
    /\ run_env.report # None
    /\ run_env.report.articles_used = 0
    /\ final_signal \in Signals
    /\ Len(appends) = 1

(***************************************************************************)
(* The history store under concurrent calls: two append_signal_record      *)
(* calls and one load_history call, as sessions of the Streamlit app or    *)
(* separate CLI processes make them on the same file                       *)
(***************************************************************************)
MaxPieces == 2         \* most writes one append's line reaches the file in

Writers == {"writer_a", "writer_b"}

\* the line each writer appends
WriterLine(w) ==
    LET inp == AppendInput(IF w = "writer_a" THEN "likely_up" ELSE "uncertain")
    IN  RecordLine(HistoryRecord(inp.cfg, inp.market, inp.ai, inp.final_signal,
                                 Now(IF w = "writer_a" THEN 1 ELSE 2)))

\* how many tokens a short write takes
ShortWrites == {2, 5}

ConcurrentLogs ==
    {File(FALSE, <<>>), File(TRUE, <<>>),
     File(TRUE, ScoredLine("TEST", "2024-01-16", "likely_down", 80))}

InitConcurrent ==
    /\ pc = [w \in Writers |-> "idle"] @@ [reader |-> "idle"]
    /\ log \in ConcurrentLogs
    /\ log0 = log
    /\ appends = [w \in Writers |-> [written |-> 0, pieces |-> 0, at |-> <<>>]]
    /\ hist_out = [pos |-> 0, lines |-> <<>>, records |-> None]
    /\ ParseIdle /\ RunIdle /\ AnalyzeIdle /\ UnitIdle /\ MainIdle

\* line 51: open(path, "a") creates the file; line 54: an OSError is caught
OpenForAppend(w) ==
    /\ pc[w] = "idle"
    /\ \/ /\ log' = File(TRUE, log.text)
          /\ pc' = [pc EXCEPT ![w] = "opened"]
       \/ /\ pc' = [pc EXCEPT ![w] = "closed"]
          /\ UNCHANGED log
    /\ UNCHANGED <<parseVars, runVars, analyzeVars, final_signal, unitVars,
                   log0, appends, hist_out, mainVars>>

\* line 52 and the end of the with block: the line goes to the file at its
\* end, whole or, when a write is short, the rest in a further write
WritePiece(w) ==
    /\ pc[w] = "opened"
    /\ LET line == WriterLine(w)
           done == appends[w].written
           Put(n) ==
               /\ log' = WriteAppend(log, SubSeq(line, done + 1, done + n))
               /\ appends' = [appends EXCEPT ![w] =
                                 [written |-> done + n, pieces |-> @.pieces + 1,
                                  at |-> Append(@.at, Len(log.text))]]
               /\ pc' = [pc EXCEPT ![w] =
                            IF done + n = Len(line) THEN "closed" ELSE "opened"]
       IN  \/ Put(Len(line) - done)
           \/ /\ appends[w].pieces + 1 < MaxPieces
              /\ \E n \in ShortWrites : done + n < Len(line) /\ Put(n)
    /\ UNCHANGED <<parseVars, runVars, analyzeVars, final_signal, unitVars,
                   log0, hist_out, mainVars>>

\* lines 65-69: no file, no records; else the file is opened for reading
OpenForRead ==
    /\ pc.reader = "idle"
    /\ IF ~log.exists
       THEN /\ hist_out' = [hist_out EXCEPT !.records = <<>>]
            /\ pc' = [pc EXCEPT !.reader = "returned"]
       ELSE /\ pc' = [pc EXCEPT !.reader = "reading"]
            /\ UNCHANGED hist_out
    /\ UNCHANGED <<parseVars, runVars, analyzeVars, final_signal, unitVars,
                   log, log0, appends, mainVars>>

\* line 70: the iteration takes the text up to the next newline, or up to the
\* end of what the file holds at that moment; at the end of the file it stops
\* and the records of the lines read are returned
ReadLine ==
    /\ pc.reader = "reading"
    /\ LET text == log.text
           from == hist_out.pos + 1
           nls == {i \in from..Len(text) : text[i] = NL}
           to == IF nls = {} THEN Len(text)
                 ELSE CHOOSE i \in nls : \A j \in nls : i <= j
       IN  IF from > Len(text)
           THEN /\ hist_out' = [hist_out EXCEPT !.records = ParseLines(hist_out.lines)]
                /\ pc' = [pc EXCEPT !.reader = "returned"]
           ELSE /\ hist_out' = [hist_out EXCEPT
                                   !.pos = to,
                                   !.lines = Append(@, SubSeq(text, from, to))]
                /\ UNCHANGED pc
    /\ UNCHANGED <<parseVars, runVars, analyzeVars, final_signal, unitVars,
                   log, log0, appends, mainVars>>

NextConcurrent ==
    \/ \E w \in Writers : OpenForAppend(w)
    \/ \E w \in Writers : WritePiece(w)
    \/ OpenForRead
    \/ ReadLine

SpecConcurrent == InitConcurrent /\ [][NextConcurrent]_vars

\* C21: appends are atomic at the line level. A load_history that runs
\* beside the appends returns the records the file held before them followed
\* by complete new records only, each at most once; and once the appends
\* are over, the file holds the old text followed by the whole lines of the
\* appends that wrote, one after the other, in the order they began to write.
WrittenBy(w) == appends[w].pieces > 0

OldRecords == ParseLines(SplitLines(log0.text))

NewRecords == {JsonLoads(Strip(WriterLine(w))).value : w \in Writers}

ReaderSeesWholeRecords ==
    (pc.reader = "returned") =>
        LET rs == hist_out.records
        IN  /\ Len(rs) >= Len(OldRecords)
            /\ SubSeq(rs, 1, Len(OldRecords)) = OldRecords
            /\ \A i \in Len(OldRecords) + 1..Len(rs) :
                  /\ rs[i] \in NewRecords
                  /\ \A j \in Len(OldRecords) + 1..Len(rs) : rs[i] = rs[j] => i = j

LinesNotInterleaved ==
    (\A w \in Writers : pc[w] = "closed") =>
        \E first \in Writers :
            LET second == CHOOSE w \in Writers : w # first
                Whole(w) == IF WrittenBy(w) THEN WriterLine(w) ELSE <<>>
            IN  log.text = log0.text \o Whole(first) \o Whole(second)

MaxRsiPoints == 16     \* longest series handed to _compute_rsi
MaxBandPoints == 21    \* longest series handed to _compute_bollinger_bands

BollingerPeriod == 20  \* period: int = 20

RECURSIVE SumSquares(_)
SumSquares(s) == IF s = <<>> THEN 0 ELSE Head(s) * Head(s) + SumSquares(Tail(s))

MinOf(s) == CHOOSE x \in {s[i] : i \in DOMAIN s} : \A i \in DOMAIN s : x <= s[i]

MaxOf(s) == CHOOSE x \in {s[i] : i \in DOMAIN s} : \A i \in DOMAIN s : x >= s[i]

\* lines 61-68: the window, and mean and variance as exact fractions:
\* middle = sum / w, std^2 = dev / (w * (w - 1)), std = 0 when w = 1
Window(close) ==
    LET window_data == TailOf(close, BollingerPeriod)
        w == Len(window_data)
        sum == SumSeq(window_data)
    IN  [w |-> w, sum |-> sum, dev |-> w * SumSquares(window_data) - sum * sum,
         lo |-> MinOf(window_data), hi |-> MaxOf(window_data)]

\* x > middle + 2 * std, x a price
AboveUpper(win, x) ==
    LET a == x * win.w - win.sum
    IN  a > 0 /\ (win.w = 1 \/ a * a * (win.w - 1) > 4 * win.dev * win.w)

\* x >= middle + 2 * std: the mutant of line 70 that takes a close on the band
AboveOrOnUpper(win, x) ==
    LET a == x * win.w - win.sum
    IN  a >= 0 /\ (win.w = 1 \/ a * a * (win.w - 1) >= 4 * win.dev * win.w)

\* x < middle - 2 * std
BelowLower(win, x) ==
    LET a == win.sum - x * win.w
    IN  a > 0 /\ (win.w = 1 \/ a * a * (win.w - 1) > 4 * win.dev * win.w)

\* the half-thousandths h (a price or the middle between two) with
\* h / 2 <= middle + 2 * std, with h / 2 = middle + 2 * std
UpperAtLeast(win, h) ==
    LET a == h * win.w - 2 * win.sum
    IN  a <= 0 \/ (win.w > 1 /\ a * a * (win.w - 1) <= 16 * win.dev * win.w)

UpperIs(win, h) ==
    LET a == h * win.w - 2 * win.sum
    IN  IF win.w = 1 THEN a = 0
        ELSE a >= 0 /\ a * a * (win.w - 1) = 16 * win.dev * win.w

\* the same for middle - 2 * std: h / 2 <= middle - 2 * std
LowerAtLeast(win, h) ==
    LET a == 2 * win.sum - h * win.w
    IN  a >= 0 /\ (win.w = 1 \/ a * a * (win.w - 1) >= 16 * win.dev * win.w)

LowerIs(win, h) ==
    LET a == 2 * win.sum - h * win.w
    IN  IF win.w = 1 THEN a = 0
        ELSE a >= 0 /\ a * a * (win.w - 1) = 16 * win.dev * win.w

\* round(x, 2) of a band: the hundredth k nearest to it, the even one of
\* two equally near; a band lies within twice the window's range of it
RoundBand(win, band) ==
    LET AtLeast(h) == IF band = "bb_upper" THEN UpperAtLeast(win, h) ELSE LowerAtLeast(win, h)
        Is(h) == IF band = "bb_upper" THEN UpperIs(win, h) ELSE LowerIs(win, h)
        reach == 2 * (win.hi - win.lo) + 10
        ks == {k \in ((win.lo - reach) \div 10)..((win.hi + reach) \div 10 + 1) :
                  AtLeast(20 * k - 10)}
        k == CHOOSE x \in ks : \A y \in ks : y <= x
    IN  IF Is(20 * k - 10) /\ k % 2 = 1 THEN k - 1 ELSE k

\* lines 70-77 with a close on the upper band counted as above it
PositionOnBandIsOut(win, last) ==
    IF AboveOrOnUpper(win, last) THEN "above_upper"
    ELSE IF BelowLower(win, last) THEN "below_lower"
    ELSE "inside"

\* lines 70-77
Position(win, last) ==
    IF AboveUpper(win, last) THEN "above_upper"
    ELSE IF BelowLower(win, last) THEN "below_lower"
    ELSE "inside"

\* _compute_bollinger_bands; close.iloc[-1] of an empty series raises
_compute_bollinger_bands(close) ==
    IF close = <<>> THEN Raised("IndexError")
    ELSE LET win == Window(close)
         IN  Returned([bb_upper |-> RoundBand(win, "bb_upper"),
                       bb_middle |-> RoundDiv(win.sum, 10 * win.w),
                       bb_lower |-> RoundBand(win, "bb_lower"),
                       bb_position |-> Position(win, close[Len(close)])])

\* a series of n closes from base on, every m-th change a and the others b
PatternSeries(n, base, a, b, m) ==
    [i \in 1..n |-> base + ((i - 1) \div m) * a + ((i - 1) - (i - 1) \div m) * b]

\* n closes, all at base but the last (TestBollingerBands: far above, far below)
SpikeSeries(n, base, last) == [i \in 1..n |-> IF i = n THEN last ELSE base]

CloseSeries ==
    {PatternSeries(n, base, a, b, m) :
        n \in 0..MaxBandPoints, base \in {50, 52}, a \in -2..2, b \in -2..2, m \in {2, 3}}
    \cup {SpikeSeries(n, 50, last) : n \in {1, 2, 20, MaxBandPoints}, last \in {0, 100}}

InitIndicators ==
    /\ pc = "series"
    /\ result_in \in CloseSeries
    /\ result_out = None
    /\ ParseIdle /\ RunIdle /\ AnalyzeIdle /\ HistIdle /\ MainIdle
    /\ final_signal = "none"

ComputeRsi ==
    /\ pc = "series"
    /\ Len(result_in) <= MaxRsiPoints
    /\ result_out' = Returned(_compute_rsi(result_in))
    /\ pc' = "_compute_rsi"
    /\ UNCHANGED <<parseVars, runVars, analyzeVars, final_signal, result_in,
                   histVars, mainVars>>

ComputeBollingerBands ==
    /\ pc = "series"
    /\ result_out' = _compute_bollinger_bands(result_in)
    /\ pc' = "_compute_bollinger_bands"
    /\ UNCHANGED <<parseVars, runVars, analyzeVars, final_signal, result_in,
                   histVars, mainVars>>

NextIndicators == ComputeRsi \/ ComputeBollingerBands

SpecIndicators == InitIndicators /\ [][NextIndicators]_vars

StrictlyIncreasing(s) == \A i \in 1..(Len(s) - 1) : s[i] < s[i + 1]

StrictlyDecreasing(s) == \A i \in 1..(Len(s) - 1) : s[i] > s[i + 1]

\* C22: _compute_rsi with period 14 returns 50.0 for every series of fewer
\* than 15 points, 100.0 for every strictly increasing 15-point series, 0.0
\* for every strictly decreasing 15-point series, and a value in [0, 100]
\* for every series.
C22_Rsi ==
    (pc = "_compute_rsi") =>
        LET rsi == result_out.result
        IN  /\ result_out.exc = "none"
            /\ Len(result_in) < 15 => rsi = 5000
            /\ (Len(result_in) = 15 /\ StrictlyIncreasing(result_in)) => rsi = 10000
            /\ (Len(result_in) = 15 /\ StrictlyDecreasing(result_in)) => rsi = 0
            /\ 0 <= rsi /\ rsi <= 10000

\* a strictly decreasing series of 15 closes got 0.0
C22_Witness ==
    /\ pc = "_compute_rsi"
    /\ Len(result_in) = 15
    /\ StrictlyDecreasing(result_in)
    /\ result_out.result = 0

IsConstant(s) == \A i \in DOMAIN s : s[i] = s[1]

\* the returned bands are in order
BandsOrdered(b) == b.bb_lower <= b.bb_middle /\ b.bb_middle <= b.bb_upper

\* the position goes by the latest close against the bands: strictly above
\* the upper one, strictly below the lower one, inside otherwise
PositionByLatestClose(close, b) ==
    LET win == Window(close)
        last == close[Len(close)]
        above == ~UpperAtLeast(win, 2 * last)
        below == LowerAtLeast(win, 2 * last) /\ ~LowerIs(win, 2 * last)
    IN  /\ b.bb_position \in {"above_upper", "below_lower", "inside"}
        /\ b.bb_position = "above_upper" <=> above
        /\ b.bb_position = "below_lower" <=> (below /\ ~above)
        /\ (UpperIs(win, 2 * last) \/ LowerIs(win, 2 * last)) => b.bb_position = "inside"

\* C23 as stated: for every non-empty series bb_lower <= bb_middle <=
\* bb_upper; for a constant series of 20 closes or more the three bands
\* equal that price and the position is inside; the position is above_upper
\* only for a latest close strictly above the upper band, below_lower only
\* for one strictly below the lower band, inside otherwise.
C23_Bands ==
    (pc = "_compute_bollinger_bands" /\ result_in # <<>>) =>
        LET b == result_out.result
        IN  /\ result_out.exc = "none"
            /\ BandsOrdered(b)
            /\ PositionByLatestClose(result_in, b)
            /\ (IsConstant(result_in) /\ Len(result_in) >= 20) =>
                  /\ 10 * b.bb_upper = result_in[1]
                  /\ 10 * b.bb_middle = result_in[1]
                  /\ 10 * b.bb_lower = result_in[1]
                  /\ b.bb_position = "inside"

\* C23 amended: the same, the three bands of a constant series of 20 closes
\* or more being equal to that price rounded to two decimals.
C23_BandsRounded ==
    (pc = "_compute_bollinger_bands" /\ result_in # <<>>) =>
        LET b == result_out.result
        IN  /\ result_out.exc = "none"
            /\ BandsOrdered(b)
            /\ PositionByLatestClose(result_in, b)
            /\ (IsConstant(result_in) /\ Len(result_in) >= 20) =>
                  /\ b.bb_upper = Round2(result_in[1])
                  /\ b.bb_middle = Round2(result_in[1])
                  /\ b.bb_lower = Round2(result_in[1])
                  /\ b.bb_position = "inside"

\* 20 closes of 0.052 gave three bands of 0.05 and the position inside
C23_Witness ==
    /\ pc = "_compute_bollinger_bands"
    /\ Len(result_in) >= 20
    /\ IsConstant(result_in)
    /\ result_in[1] = 52
    /\ result_out.result.bb_upper = 5
    /\ result_out.result.bb_lower = 5
    /\ result_out.result.bb_position = "inside"

(***************************************************************************)
(* _deduplicate (src/news.py); a string is a sequence of characters        *)
(***************************************************************************)
MaxDedupe == 3         \* longest article list handed to _deduplicate

\* str.lower() on the characters in use
LowerCh(tok) ==
    IF tok = Ch("T") THEN Ch("t") ELSE IF tok = Ch("U") THEN Ch("u") ELSE tok

Lower(s) == [i \in DOMAIN s |-> LowerCh(s[i])]

Article(title, source, url) == [title |-> title, source |-> source, url |-> url]

\* lines 31-34: the text that is hashed; sha256 keeps two texts apart
dedup_key(art) == Lower(Strip(art.url)) \o <<Ch("|")>> \o Lower(Strip(art.title))

\* lines 134-141: the loop, seen being the keys met so far
RECURSIVE DedupLoop(_, _)
DedupLoop(arts, seen) ==
    IF arts = <<>> THEN <<>>
    ELSE LET art == Head(arts)
             key == dedup_key(art)
         IN  IF key \notin seen /\ art.title # <<>>
             THEN <<art>> \o DedupLoop(Tail(arts), seen \cup {key})
             ELSE DedupLoop(Tail(arts), seen)

_deduplicate(arts) == DedupLoop(arts, {})

\* the articles of TestNewsDedupe (same title and url from two sources, an
\* other title, an empty title), the same in other case and with spaces
\* around, a title of one space, and titles and urls that hold the bar
SampleArticles ==
    {Article(<<Ch("T")>>, "Source1", <<Ch("u")>>),
     Article(<<Ch("T")>>, "Source2", <<Ch("u")>>),
     Article(<<Ch("t"), SP>>, "Source1", <<SP, Ch("U")>>),
     Article(<<Ch("o")>>, "Source1", <<Ch("v")>>),
     Article(<<>>, "Src", <<Ch("e")>>),
     Article(<<>>, "Src", <<Ch("u")>>),
     Article(<<SP>>, "Src", <<Ch("u")>>),
     Article(<<Ch("b"), Ch("|"), Ch("c")>>, "Src", <<Ch("u")>>),
     Article(<<Ch("c")>>, "Src", <<Ch("u"), Ch("|"), Ch("b")>>)}

InitNews ==
    /\ pc = "articles"
    /\ result_in \in UNION {[1..n -> SampleArticles] : n \in 0..MaxDedupe}
    /\ result_out = None
    /\ ParseIdle /\ RunIdle /\ AnalyzeIdle /\ HistIdle /\ MainIdle
    /\ final_signal = "none"

Deduplicate ==
    /\ pc = "articles"
    /\ result_out' = _deduplicate(result_in)
    /\ pc' = "deduplicated"
    /\ UNCHANGED <<parseVars, runVars, analyzeVars, final_signal, result_in,
                   histVars, mainVars>>

\* _deduplicate applied to its own output
DeduplicateAgain ==
    /\ pc = "deduplicated"
    /\ result_in' = result_out
    /\ result_out' = _deduplicate(result_out)
    /\ pc' = "deduplicated_again"
    /\ UNCHANGED <<parseVars, runVars, analyzeVars, final_signal, histVars, mainVars>>

NextNews == Deduplicate \/ DeduplicateAgain

SpecNews == InitNews /\ [][NextNews]_vars

\* url and title after trimming whitespace and lower-casing
Identity(art) == <<Lower(Strip(art.url)), Lower(Strip(art.title))>>

\* the first article of its identity class among those with a title
IsFirstOfClass(arts, i) ==
    /\ arts[i].title # <<>>
    /\ \A j \in 1..(i - 1) :
          arts[j].title # <<>> => Identity(arts[j]) # Identity(arts[i])

RECURSIVE FirstsFrom(_, _)
FirstsFrom(arts, i) ==
    IF i > Len(arts) THEN <<>>
    ELSE (IF IsFirstOfClass(arts, i) THEN <<arts[i]>> ELSE <<>>) \o FirstsFrom(arts, i + 1)

\* C24: _deduplicate keeps, in input order, exactly the first article of
\* each identity class among the articles with a non-empty title, two
\* articles having the same identity iff their url and title are equal after
\* trimming whitespace and lower-casing; every article with an empty title is
\* dropped; applying _deduplicate to its own output changes nothing.
C24_Deduplicate ==
    /\ pc \in {"deduplicated", "deduplicated_again"} =>
          /\ result_out = FirstsFrom(result_in, 1)
          /\ \A i \in DOMAIN result_out : result_out[i].title # <<>>
    /\ pc = "deduplicated_again" => result_out = result_in

\* the environment variable holding the credential validate asks of a provider
CredentialVariable(provider) ==
    CASE provider = "claude" -> "CLAUDE_API_KEY"
      [] provider = "google" -> "GOOGLE_API_KEY"
      [] provider = "perplexity" -> "PERPLEXITY_API_KEY"
      [] OTHER -> "OPENAI_API_KEY"

\* the credential of a backend in a Config
CredentialOf(c, backend) ==
    CASE backend = "claude" -> c.claude_api_key
      [] backend = "google" -> c.google_api_key
      [] backend = "perplexity" -> c.perplexity_api_key
      [] OTHER -> c.openai_api_key

Names(problems, variable) ==
    \E i \in DOMAIN problems : problems[i] = variable \o " is not set."

\* C25: Config.validate returns a problem naming the credential variable of
\* the selected provider whenever that credential is empty (a provider name
\* that is not recognised is checked as openai, the backend analyze
\* dispatches it to), a problem naming TICKER or TOPIC when that field is
\* empty, and no problem when the three are set; with a problem in the list
\* the CLI exits after validate and runs no pipeline step.
C25_Validate ==
    (/\ run_env # None /\ run_env.entry = "main" /\ run_env.history_arg = ""
     /\ pc # "main") =>
        LET problems == validate(cfg)
            credential == CredentialOf(cfg, Backend(cfg.ai_provider))
        IN  /\ trace[1] = Call("Config.validate", cfg)
            /\ credential = "" <=> Names(problems, CredentialVariable(cfg.ai_provider))
            /\ cfg.ticker = "" <=> Names(problems, "TICKER")
            /\ cfg.topic = "" <=> Names(problems, "TOPIC")
            /\ (credential # "" /\ cfg.ticker # "" /\ cfg.topic # "") <=> problems = <<>>
            /\ Len(problems) <= 3
            /\ problems # <<>> =>
                  /\ pc = "exited"
                  /\ trace = <<Call("Config.validate", cfg), Call("sys.exit", cfg)>>
                  /\ run_env.news = None /\ run_env.prices = None
                  /\ articles = <<>> /\ market = None /\ calls = <<>>
                  /\ outcome = None /\ final_signal = "none"
                  /\ appends = <<>> /\ log = log0
            /\ problems = <<>> => Len(trace) >= 1 /\ pc \notin {"main"}
            /\ pc \in {"attempt", "returned", "combined"} /\ origin = "ai" =>
                  credential # ""

\* a run whose provider name analyze does not know, without the OpenAI key:
\* validate named OPENAI_API_KEY and the CLI exited before the pipeline
C25_Witness ==
    /\ pc = "exited"
    /\ run_env.entry = "main"
    /\ cfg.ai_provider = "mistral"
    /\ cfg.openai_api_key = ""
    /\ cfg.claude_api_key # ""
    /\ trace = <<Call("Config.validate", cfg), Call("sys.exit", cfg)>>

HighConviction == {"high_conviction_up", "high_conviction_down"}

MaxOfTwo(a, b) == IF a >= b THEN a ELSE b

\* C26: in a run whose AnalysisResult comes from a parsed backend reply, a
\* parsed confidence below cfg.confidence_threshold gives the final signal
\* uncertain, so a high-conviction final signal implies a confidence of at
\* least max(70, cfg.confidence_threshold).
C26_ThresholdEndToEnd ==
    (pc = "combined" /\ origin = "ai") =>
        LET reply == _parse_analysis(calls[Len(calls)].text).result
        IN  /\ outcome.result.confidence_0_100 = reply.confidence_0_100
            /\ reply.confidence_0_100 < cfg.confidence_threshold =>
                  final_signal = "uncertain"
            /\ final_signal \in HighConviction =>
                  reply.confidence_0_100 >= MaxOfTwo(70, cfg.confidence_threshold)

\* a reply of likely_down with confidence 75, the market falling: under the
\* threshold 80 the final signal is uncertain
C26_Witness ==
    /\ pc = "combined"
    /\ origin = "ai"
    /\ cfg.confidence_threshold = 80
    /\ outcome.result.confidence_0_100 = 75
    /\ _parse_analysis(calls[Len(calls)].text).result.directional_bias = "likely_down"
    /\ market.close_vs_sma7 = "below"
    /\ market.return_7d_pct < 0
    /\ final_signal = "uncertain"

\* C27: whenever analyze returns the rule-based fallback result the final
\* signal of the run is the fallback's directional_bias, and so it is
\* never high_conviction_up or high_conviction_down.
C27_FallbackSignal ==
    (pc = "combined" /\ origin = "fallback") =>
        /\ outcome.result = _rule_based_fallback(articles, market)
        /\ final_signal = outcome.result.directional_bias
        /\ final_signal \notin HighConviction

\* two failed attempts, the fallback said likely_up and so does the final signal
C27_Witness ==
    /\ pc = "combined"
    /\ origin = "fallback"
    /\ Len(calls) = 2
    /\ outcome.result.directional_bias = "likely_up"
    /\ final_signal = "likely_up"

\* C28: run_backtest never raises, whatever the content of the log: a record
\* that cannot be evaluated (incomplete, unparsable date, price fetch error,
\* too recent, or a line that is JSON but no object) is skipped, and all the
\* other records are evaluated and reported.
C28_BacktestNeverRaises ==
    (pc = "backtested" /\ hist_out.io = "ok") =>
        LET records == ParseLines(SplitLines(log.text))
            objects == SelectSeq(records, LAMBDA rec : rec.t = "dict")
        IN  /\ hist_out.exc = "none"
            /\ hist_out.out.evaluated = EvaluateAll(objects, hist_out.w)
            /\ hist_out.out.printed =
                  IF records = <<>> THEN "no_history"
                  ELSE IF hist_out.out.evaluated = <<>> THEN "none_evaluated"
                  ELSE "results"

\* the positions in the trace of the calls of a name
CallsNamed(name) == {i \in DOMAIN trace : trace[i].call = name}

\* every call of b comes after a call of a
ComesAfter(b, a) == \A j \in CallsNamed(b) : \E i \in CallsNamed(a) : i < j

\* C29: in every CLI run the report is built, and the history read for its
\* past predictions, before the run's record is appended, so the report
\* never lists the run's own signal; the notification is sent only after
\* the append and the print.
C29_ReportBeforeAppend ==
    (run_env # None /\ run_env.entry = "main") =>
        /\ ComesAfter("append_signal_record", "build_report")
        /\ ComesAfter("print", "append_signal_record")
        /\ ComesAfter("send_telegram", "append_signal_record")
        /\ ComesAfter("send_telegram", "print")
        /\ \A name \in {"build_report", "append_signal_record", "print", "send_telegram"} :
              Cardinality(CallsNamed(name)) <= 1
        /\ run_env.report # None =>
              /\ CallsNamed("build_report") # {}
              /\ run_env.report.past_predictions =
                    Len(query_history_by_ticker(log0, cfg.ticker))
              /\ (Len(appends) = 1 /\ appends[1].io = WriteDone) =>
                    Len(query_history_by_ticker(log, cfg.ticker))
                        = run_env.report.past_predictions + 1
        /\ CallsNamed("send_telegram") # {} => pc = "done"

\* a CLI run on a log with one MSFT record: the report lists one past
\* prediction, the log holds two records after the append, and the
\* notification went out last
C29_Witness ==
    /\ pc = "done"
    /\ run_env.entry = "main"
    /\ run_env.report # None
    /\ run_env.report.past_predictions = 1
    /\ Len(appends) = 1
    /\ appends[1].io = WriteDone
    /\ Len(query_history_by_ticker(log, cfg.ticker)) = 2
    /\ trace[Len(trace)].call = "send_telegram"
    /\ run_env.sent = TRUE

(***************************************************************************)
(* The Streamlit session (src/app.py): the ticker list of the sidebar, the *)
(* checkbox states, the results, under the clicks of the user.  A dict is  *)
(* a function on its keys.                                                 *)
(***************************************************************************)
Session(tickers, ticker_checked, results) ==
    [tickers |-> tickers, ticker_checked |-> ticker_checked, results |-> results]

\* d[k] = v
DictSet(d, k, v) == [x \in DOMAIN d \cup {k} |-> IF x = k THEN v ELSE d[x]]

\* d.pop(k, None)
DictPop(d, k) == [x \in DOMAIN d \ {k} |-> d[x]]

\* list.remove(x): the first occurrence goes
ListRemove(s, x) ==
    LET at == CHOOSE i \in DOMAIN s : s[i] = x /\ \A j \in 1..(i - 1) : s[j] # x
    IN  SubSeq(s, 1, at - 1) \o SubSeq(s, at + 1, Len(s))

InList(s, x) == \E i \in DOMAIN s : s[i] = x

\* what the user types in the ticker box, and _new_t.strip().upper() of it
TypedTickers == {"", " ", " aapl ", "AAPL", "msft", "goog"}

StripUpper(text) ==
    CASE text \in {" aapl ", "AAPL"} -> "AAPL"
      [] text = "msft" -> "MSFT"
      [] text = "goog" -> "GOOG"
      [] OTHER -> ""

\* lines 46-66: _init_session
_init_session ==
    Session(<<"MSFT">>, [t \in {"MSFT"} |-> TRUE], [t \in {} |-> None])

\* lines 183-188: the Add button
AddTicker(s, text) ==
    LET t == StripUpper(text)
    IN  IF t # "" /\ ~InList(s.tickers, t)
        THEN [s EXCEPT !.tickers = Append(@, t), !.ticker_checked = DictSet(@, t, TRUE)]
        ELSE s

\* lines 192-202: the All and the None button
SelectAllOrNone(s, checked) ==
    [s EXCEPT !.ticker_checked = [t \in DOMAIN @ \cup {s.tickers[i] : i \in DOMAIN s.tickers}
                                     |-> checked]]

\* lines 205-214: the checkbox of a ticker gives its state on every rerun
SetChecked(s, t, checked) ==
    IF InList(s.tickers, t)
    THEN [s EXCEPT !.ticker_checked = DictSet(@, t, checked)]
    ELSE s

\* the remove button that forgets the ticker's result
RemoveTickerKeepsResult(s, t) ==
    IF InList(s.tickers, t)
    THEN [s EXCEPT !.tickers = ListRemove(@, t),
                   !.ticker_checked = DictPop(@, t)]
    ELSE s

\* lines 215-223: the remove button of a ticker
RemoveTicker(s, t) ==
    IF InList(s.tickers, t)
    THEN [s EXCEPT !.tickers = ListRemove(@, t),
                   !.ticker_checked = DictPop(@, t),
                   !.results = DictPop(@, t)]
    ELSE s

\* lines 249-252: the tickers of the list that are checked, in list order
SelectedTickers(s) ==
    SelectSeq(s.tickers,
              LAMBDA t : IF t \in DOMAIN s.ticker_checked THEN s.ticker_checked[t] ELSE FALSE)

\* lines 253-282: the Run button; failed[t] is the exception the pipeline or
\* the append of ticker t raised, "none" when there was none
RunSelected(s, c, failed) ==
    LET selected == SelectedTickers(s)
        chosen == {selected[i] : i \in DOMAIN selected}
    IN  IF selected = <<>> THEN s
        ELSE IF validate(_build_cfg(c, selected[1])) # <<>> THEN s
        ELSE [s EXCEPT !.results =
                 [t \in DOMAIN @ \cup chosen |->
                     IF t \in chosen THEN [error |-> failed[t]] ELSE @[t]]]

Universe == {"MSFT", "AAPL", "GOOG"}

InitSession ==
    /\ pc = "session"
    /\ loop = _init_session
    /\ cfg \in {MainConfig("openai", AllKeys, "MSFT", ""),
                MainConfig("openai", NoKeys, "MSFT", "")}
    /\ trace = <<>>
    /\ run_env = None
    /\ has_pkg = None /\ articles = <<>> /\ market = None
    /\ ParseIdle /\ AnalyzeIdle /\ UnitIdle /\ HistIdle
    /\ final_signal = "none"

\* a click: what was clicked and the session before it
Click(name, arg) == <<[click |-> name, arg |-> arg, before |-> loop]>>

SessionFrame ==
    UNCHANGED <<pc, parseVars, runVars, analyzeVars, final_signal, unitVars, histVars,
                run_env>>

ClickAdd ==
    /\ \E text \in TypedTickers :
          /\ loop' = AddTicker(loop, text)
          /\ trace' = Click("add", text)
    /\ SessionFrame

ClickAllOrNone ==
    /\ \E checked \in BOOLEAN :
          /\ loop' = SelectAllOrNone(loop, checked)
          /\ trace' = Click("all_or_none", checked)
    /\ SessionFrame

ClickCheckbox ==
    /\ \E t \in Universe, checked \in BOOLEAN :
          /\ InList(loop.tickers, t)
          /\ loop' = SetChecked(loop, t, checked)
          /\ trace' = Click("checkbox", t)
    /\ SessionFrame

ClickRemove ==
    /\ \E t \in Universe :
          /\ InList(loop.tickers, t)
          /\ loop' = RemoveTicker(loop, t)
          /\ trace' = Click("remove", t)
    /\ SessionFrame

ClickRun ==
    /\ \E failed \in [Universe -> {"none", "ValueError"}] :
          /\ loop' = RunSelected(loop, cfg, failed)
          /\ trace' = Click("run", failed)
    /\ SessionFrame

NextSession == ClickAdd \/ ClickAllOrNone \/ ClickCheckbox \/ ClickRemove \/ ClickRun

SpecSession == InitSession /\ [][NextSession]_vars


ListSet(s) == {s[i] : i \in DOMAIN s}

NoDuplicates(s) == \A i, j \in DOMAIN s : s[i] = s[j] => i = j

SessionInvariants ==
    /\ NoDuplicates(loop.tickers)
    /\ DOMAIN loop.ticker_checked = ListSet(loop.tickers)
    /\ DOMAIN loop.results \subseteq ListSet(loop.tickers)

LastClick == trace[1]

Clicked(name) == pc = "session" /\ trace # <<>> /\ LastClick.click = name

RemoveForgets ==
    Clicked("remove") =>
        /\ LastClick.arg \notin ListSet(loop.tickers)
        /\ LastClick.arg \notin DOMAIN loop.ticker_checked
        /\ LastClick.arg \notin DOMAIN loop.results

\* the Run gave every selected ticker its entry, an error entry where the
\* pipeline failed, and left the entries of the other tickers alone
StoredPerSelected ==
    LET chosen == ListSet(SelectedTickers(LastClick.before))
    IN  /\ DOMAIN loop.results = DOMAIN LastClick.before.results \cup chosen
        /\ \A t \in chosen : loop.results[t] = [error |-> LastClick.arg[t]]
        /\ \A t \in DOMAIN loop.results \ chosen :
              loop.results[t] = LastClick.before.results[t]

RunWasValid ==
    LET selected == SelectedTickers(LastClick.before)
    IN  selected # <<>> /\ validate(_build_cfg(cfg, selected[1])) = <<>>

\* C30 as stated: in the Streamlit session the ticker list has no duplicates,
\* the keys of ticker_checked are the tickers of the list, the keys of results
\* are tickers of the list, a removed ticker loses its checkbox state and its
\* result, and every Run stores one entry per selected ticker, an error entry
\* for a ticker whose pipeline failed.
C30_Session ==
    pc = "session" =>
        /\ SessionInvariants
        /\ RemoveForgets
        /\ Clicked("run") => StoredPerSelected

\* C30 amended: the same, but a Run stores the entries only under a
\* configuration that validate accepts; with configuration problems, or with
\* no ticker selected, the Run leaves the session as it was.
C30_SessionValidRun ==
    pc = "session" =>
        /\ SessionInvariants
        /\ RemoveForgets
        /\ Clicked("run") =>
              IF RunWasValid THEN StoredPerSelected ELSE loop = LastClick.before

\* a Run over two selected tickers of which one failed: both have an entry,
\* and a third ticker that had a result kept it
C30_Witness ==
    /\ Clicked("run")
    /\ RunWasValid
    /\ \E t, u \in ListSet(SelectedTickers(LastClick.before)) :
          /\ loop.results[t].error = "none"
          /\ loop.results[u].error = "ValueError"
    /\ \E t \in DOMAIN loop.results : t \notin ListSet(SelectedTickers(LastClick.before))

====
